---- MODULE Spec2Model ----
(***************************************************************************)
(* Comment synchronization engine of the commenting system                 *)
(* (src/app/commenting-system/contexts/CommentContext.tsx) together with   *)
(* the GitHub adapter it drives (services/githubAdapter).                  *)
(*                                                                         *)
(* Every handler and every continuation between two awaits is one action.  *)
(* React state `threads` is the collection; `threadsRef` is the copy the   *)
(* effect of lines 185-187 installs after a render.  A remote write takes  *)
(* effect on the tracker when the call is issued and its response is       *)
(* delivered by a later action; a remote read observes the tracker when    *)
(* its response is delivered.                                              *)
(*                                                                         *)
(* Not modelled: anchor coordinates, issue url, author, provider tag.      *)
(***************************************************************************)
EXTENDS Integers, Sequences, FiniteSets, TLC

\* ------------------------------------------------------------------ bounds
MaxClock == 4
MaxIssues == 2
MaxRemoteComments == 3
MaxThreads == 1
MaxComments == 1
MaxInFlight == 2
TombThreads == 2
MergeThreads == 2
MaxShown == 3
BackfillComments == 3
RetryComments == 2
RetryInFlight == 1
CreateIds == 2
TombIds == 2
VersionIds == 2
MergeIds == 3
BackfillIds == 4
RetryIds == 3
DeleteIds == 2
EditThreads == 2
EditIds == 3
LockIds == 2
LockInFlight == 3
OfflineIds == 2
OfflineInFlight == 1
TickIds == 2
TickComments == 2
TickInFlight == 1
FetchComments == 3
FetchInFlight == 1
CancelIds == 2
RouteIds == 3
RouteComments == 2
CycleIds == 3
CycleComments == 2
CycleInFlight == 1
OrderIds == 4
OrderComments == 3
OrderInFlight == 1
CountIds == 2
CountInFlight == 2

GuardLimit == 10000
MinSnippet == 12
FetchMarker == 2

\* ------------------------------------------------------------ value spaces
Routes == {"/r"}
NoVersion == ""
MergeVersions == {NoVersion, "2"}
Versions == {NoVersion, "1", "2"}
LockVersions == {NoVersion, "1"}
NoId == <<"none", 0>>
ThreadId(n) == <<"thread", n>>
GhThreadId(n) == <<"gh", n>>
CommentId(n) == <<"comment", n>>
GhCommentId(n) == <<"ghc", n>>
UserTexts == {<<[q |-> 0, s |-> "a"]>>}
\* what the user changes a Comment to
EditedTexts == {<<[q |-> 0, s |-> "b"]>>}

\* ------------------------------------------------------------- sequences
RECURSIVE SeqFilterIdx(_, _, _)
SeqFilterIdx(s, keep, i) ==
  IF i > Len(s) THEN <<>>
  ELSE (IF i \in keep THEN <<s[i]>> ELSE <<>>) \o SeqFilterIdx(s, keep, i + 1)

FirstIdx(s, S) == IF S = {} THEN 0 ELSE CHOOSE i \in S : \A j \in S : i <= j

Range(s) == {s[i] : i \in DOMAIN s}

\* threads.find((t) => t.id === id); a record with id NoId when absent
NoThread ==
  [id |-> NoId, route |-> "", version |-> NoVersion, comments |-> <<>>,
   issueNumber |-> 0, syncStatus |-> "local", syncError |-> "", status |-> "open"]

FindThread(ths, id) ==
  LET S == {i \in DOMAIN ths : ths[i].id = id}
  IN IF S = {} THEN NoThread ELSE ths[FirstIdx(ths, S)]

NoComment ==
  [id |-> NoId, text |-> <<>>, createdAt |-> 0, githubCommentId |-> 0,
   parentCommentId |-> NoId, parentGitHubCommentId |-> 0]

FindComment(cs, id) ==
  LET S == {i \in DOMAIN cs : cs[i].id = id}
  IN IF S = {} THEN NoComment ELSE cs[FirstIdx(cs, S)]

\* ----------------------------------------------------------- reply bodies
\* A body is the hidden marker (0 none, -1 the local marker, n the parent's
\* remote comment id) and the visible lines; a line is a text atom at a
\* quotation depth.
Quote(l) == [q |-> l.q + 1, s |-> l.s]
HeaderLine == [q |-> 1, s |-> "Replying to comment"]
FirstLines(t, n) == IF Len(t) <= n THEN t ELSE SubSeq(t, 1, n)
QuoteLines(t) == [i \in DOMAIN t |-> Quote(t[i])]

\* a body that never carries a marker
buildGitHubReplyBody_NoMarker(text, parent) == [marker |-> 0, lines |-> text]

buildGitHubReplyBody(text, parent) ==
  IF parent.id = NoId THEN [marker |-> 0, lines |-> text]
  ELSE IF parent.githubCommentId = 0 THEN [marker |-> -1, lines |-> text]
  ELSE [marker |-> parent.githubCommentId,
        lines |-> <<HeaderLine>> \o QuoteLines(FirstLines(parent.text, 6)) \o text]

stripHaleReplyMarkers(body) == body.lines

parseReplyParentFromGitHubBody(body) == IF body.marker > 0 THEN body.marker ELSE 0


\* ------------------------------------------------------------------- state
VARIABLES
  threads,                   \* React state `threads` (line 154)
  threadsRef,                \* threadsRef.current (line 183)
  configured,                \* isGitHubConfigured()
  hiddenIssueNumbers,        \* hiddenIssueNumbersRef.current (tombstones)
  pendingCloseIssueNumbers,  \* pendingCloseIssueNumbersRef.current
  removedThreadIds,          \* removedThreadIdsRef.current
  syncInFlightByKey,         \* keys of syncInFlightByKey.current
  syncInFlightCount,         \* React state syncInFlightCount
  now,                       \* Date.now()
  nowUsed,                   \* an id or timestamp was taken from `now`
  pinsDropped,               \* history: ids of the Threads addThread has created
  remoteIssues,              \* the tracker: issue number -> issue
  lastCommentId,             \* the tracker: last comment id handed out
  calls,                     \* single adapter calls awaiting their response
  backfills,                 \* running ensureIssueAndBackfill invocations
  retries,                   \* running retrySync invocations
  syncs,                     \* running syncFromGitHub passes
  closeRequested,            \* issue numbers a tombstone handler closed
  removedPins,               \* history: thread ids removePin has removed
  lastMerge                  \* history: the last merge (scope key, candidates), forgotten
                             \* by every handler that may change local or remote data

vars ==
  <<threads, threadsRef, configured, hiddenIssueNumbers, pendingCloseIssueNumbers,
    removedThreadIds, syncInFlightByKey, syncInFlightCount, now, nowUsed, pinsDropped,
    remoteIssues, lastCommentId, calls, backfills, retries, syncs,
    closeRequested, removedPins, lastMerge>>

localVars == <<hiddenIssueNumbers, pendingCloseIssueNumbers, removedThreadIds>>
syncVars == <<syncInFlightByKey, syncInFlightCount, syncs>>
clockVars == <<now, nowUsed, pinsDropped>>
remoteVars == <<remoteIssues, lastCommentId>>

\* ----------------------------------------------------------------- helpers
\* prev.map((t) => (t.id === id ? F(t) : t))
MapThread(ths, id, F(_)) ==
  [i \in DOMAIN ths |-> IF ths[i].id = id THEN F(ths[i]) ELSE ths[i]]

MapComment(cs, id, F(_)) ==
  [i \in DOMAIN cs |-> IF cs[i].id = id THEN F(cs[i]) ELSE cs[i]]

FilterSeqBy(s, keep) == SeqFilterIdx(s, keep, 1)

SetStatus(t, st, err) == [t EXCEPT !.syncStatus = st, !.syncError = err]

InFlight == Cardinality(calls) + Cardinality(backfills) + Cardinality(retries)
            + Cardinality(syncs)

\* an invocation is told apart from an identical one by the smallest unused number
FreePid(S) ==
  LET used == {t.pid : t \in S}
  IN CHOOSE n \in 1..(Cardinality(S) + 1) : n \notin used /\ \A m \in 1..(n - 1) : m \in used

NoCall ==
  [pid |-> 0, op |-> "none", threadId |-> NoId, commentId |-> NoId, num |-> 0,
   ok |-> FALSE, val |-> 0, saved |-> NoComment]

\* ------------------------------------------------------------- the tracker
NewIssue(route, version, origin) ==
  [route |-> route, version |-> version, state |-> "open", comments |-> <<>>,
   origin |-> origin]

\* githubAdapter.createIssue (part_004 150-203): the issue exists on the
\* tracker as soon as a successful call was issued.
RemoteCreateIssue(ok, route, version, origin) ==
  /\ ok => (configured /\ Len(remoteIssues) < MaxIssues)
  /\ remoteIssues' =
       IF ok THEN Append(remoteIssues, NewIssue(route, version, origin)) ELSE remoteIssues

CreatedNumber(ok) == IF ok THEN Len(remoteIssues) + 1 ELSE 0

\* githubAdapter.createComment (part_004 205-216)
RemoteCreateComment(ok, num, body) ==
  /\ ok => (configured /\ num \in DOMAIN remoteIssues /\ lastCommentId < MaxRemoteComments)
  /\ IF ok
     THEN /\ lastCommentId' = lastCommentId + 1
          /\ remoteIssues' =
               [remoteIssues EXCEPT ![num].comments =
                  Append(@, [id |-> lastCommentId + 1, body |-> body, createdAt |-> now])]
     ELSE UNCHANGED remoteVars

\* githubAdapter.closeIssue / reopenIssue (part_004 298-320)
RemoteSetState(ok, num, st) ==
  /\ ok => (configured /\ num \in DOMAIN remoteIssues)
  /\ remoteIssues' = IF ok THEN [remoteIssues EXCEPT ![num].state = st] ELSE remoteIssues

\* ------------------------------------------------------------------- Init
NoMerge == [key |-> <<>>, candidates |-> <<>>]

Init ==
  /\ threads = <<>>
  /\ threadsRef = <<>>
  /\ configured \in BOOLEAN
  /\ hiddenIssueNumbers = {}
  /\ pendingCloseIssueNumbers = {}
  /\ removedThreadIds = {}
  /\ syncInFlightByKey = {}
  /\ syncInFlightCount = 0
  /\ now = 1
  /\ nowUsed = FALSE
  /\ pinsDropped = {}
  /\ remoteIssues = <<>>
  /\ lastCommentId = 0
  /\ calls = {}
  /\ backfills = {}
  /\ retries = {}
  /\ syncs = {}
  /\ closeRequested = {}
  /\ removedPins = {}
  /\ lastMerge = NoMerge

\* --------------------------------------------------------- the environment
\* React commits a render and runs the effect of lines 185-187.
Render ==
  /\ threadsRef # threads
  /\ threadsRef' = threads
  /\ UNCHANGED <<threads, configured, localVars, syncVars, clockVars, remoteVars,
                 calls, backfills, retries, closeRequested, removedPins, lastMerge>>

\* The millisecond clock advances.
Tick ==
  /\ nowUsed
  /\ now < MaxClock
  /\ now' = now + 1
  /\ nowUsed' = FALSE
  /\ UNCHANGED <<threads, threadsRef, configured, localVars, syncVars, remoteVars, pinsDropped,
                 calls, backfills, retries, closeRequested, removedPins, lastMerge>>

\* The user signs in (a token is stored) or out (clearGitHubAuth).
SignIn ==
  /\ ~configured
  /\ configured' = TRUE
  /\ UNCHANGED <<threads, threadsRef, localVars, syncVars, clockVars, remoteVars,
                 calls, backfills, retries, closeRequested, removedPins, lastMerge>>

SignOut ==
  /\ configured
  /\ configured' = FALSE
  /\ UNCHANGED <<threads, threadsRef, localVars, syncVars, clockVars, remoteVars,
                 calls, backfills, retries, closeRequested, removedPins, lastMerge>>

\* ---------------------------------------------------------------- addThread
\* a new Thread that claims to be syncing whether or not the user is signed in
NewThread_AlwaysSyncing(id, route, version, isConfigured) ==
  [id |-> id, route |-> route, version |-> version, comments |-> <<>>,
   issueNumber |-> 0, syncStatus |-> "syncing", syncError |-> "", status |-> "open"]

NewThread(id, route, version, isConfigured) ==
  [id |-> id, route |-> route, version |-> version, comments |-> <<>>,
   issueNumber |-> 0, syncStatus |-> IF isConfigured THEN "syncing" ELSE "local",
   syncError |-> "", status |-> "open"]

addThread(route, version) ==
  /\ pinsDropped' = pinsDropped \cup {ThreadId(now)}
  /\ threads' = Append(threads, NewThread(ThreadId(now), route, version, configured))
  /\ nowUsed' = TRUE
  /\ IF configured
     THEN \E ok \in BOOLEAN :
            /\ RemoteCreateIssue(ok, route, version, ThreadId(now))
            /\ calls' = calls \cup
                 {[NoCall EXCEPT !.pid = FreePid(calls), !.op = "createIssue", !.threadId = ThreadId(now),
                                 !.ok = ok, !.val = CreatedNumber(ok)]}
     ELSE UNCHANGED <<remoteIssues, calls>>
  /\ lastMerge' = NoMerge
  /\ UNCHANGED <<threadsRef, configured, localVars, syncVars, now, lastCommentId,
                 backfills, retries, closeRequested, removedPins>>

\* a handler that never notices the earlier pin removal
DeferredTombstone_Never(c) == FALSE

\* line 274: the pin was removed before the issue number was known
DeferredTombstone(c) == c.ok /\ c.threadId \in removedThreadIds

\* The .then handler of addThread's createIssue (lines 264-297).
addThreadCreateIssueDone(c) ==
  /\ c \in calls
  /\ c.op = "createIssue"
  /\ calls' = calls \ {c}
  /\ IF DeferredTombstone(c)
     THEN /\ hiddenIssueNumbers' = hiddenIssueNumbers \cup {c.val}
          /\ closeRequested' = closeRequested \cup {c.val}
          /\ \E ok \in BOOLEAN : RemoteSetState(ok, c.val, "closed")
          /\ removedThreadIds' = removedThreadIds \ {c.threadId}
     ELSE UNCHANGED <<hiddenIssueNumbers, closeRequested, remoteIssues, removedThreadIds>>
  /\ LET F(t) == [t EXCEPT !.issueNumber = IF c.ok THEN c.val ELSE 0,
                           !.syncStatus = IF c.ok THEN "synced" ELSE "error",
                           !.syncError = IF c.ok THEN "" ELSE "Failed to create issue"]
     IN threads' = MapThread(threads, c.threadId, F)
  /\ lastMerge' = NoMerge
  /\ UNCHANGED <<threadsRef, configured, pendingCloseIssueNumbers, syncVars, clockVars,
                 lastCommentId, backfills, retries, removedPins>>

\* ---------------------------------------------------------------- removePin
removePin(threadId) ==
  LET thread == FindThread(threadsRef, threadId)
      issueNumber == thread.issueNumber
  IN /\ threads' = FilterSeqBy(threads, {i \in DOMAIN threads : threads[i].id # threadId})
     /\ removedPins' = removedPins \cup {threadId}
     /\ IF ~configured
        THEN UNCHANGED <<localVars, remoteIssues, calls>>
        ELSE IF issueNumber = 0
        THEN /\ removedThreadIds' = removedThreadIds \cup {threadId}
             /\ UNCHANGED <<hiddenIssueNumbers, pendingCloseIssueNumbers, remoteIssues, calls>>
        ELSE /\ hiddenIssueNumbers' = hiddenIssueNumbers \cup {issueNumber}
             /\ pendingCloseIssueNumbers' = pendingCloseIssueNumbers \cup {issueNumber}
             /\ \E ok \in BOOLEAN :
                  /\ RemoteSetState(ok, issueNumber, "closed")
                  /\ calls' = calls \cup
                       {[NoCall EXCEPT !.pid = FreePid(calls), !.op = "closePin", !.threadId = threadId,
                                       !.num = issueNumber, !.ok = ok]}
             /\ UNCHANGED removedThreadIds
     /\ lastMerge' = NoMerge
     /\ UNCHANGED <<threadsRef, configured, syncVars, clockVars, lastCommentId,
                    backfills, retries, closeRequested>>

\* a handler that lifts the tombstone once the issue is closed
removePinCloseDone_LiftsTombstone(c) ==
  /\ c \in calls
  /\ c.op = "closePin"
  /\ calls' = calls \ {c}
  /\ pendingCloseIssueNumbers' =
       IF c.ok THEN pendingCloseIssueNumbers \ {c.num} ELSE pendingCloseIssueNumbers
  /\ hiddenIssueNumbers' =
       IF c.ok THEN hiddenIssueNumbers \ {c.num} ELSE hiddenIssueNumbers
  /\ lastMerge' = NoMerge
  /\ UNCHANGED <<threads, threadsRef, configured, removedThreadIds,
                 syncVars, clockVars, remoteVars, backfills, retries, closeRequested,
                 removedPins>>

\* The .then handler of removePin's closeIssue (lines 897-902).
removePinCloseDone(c) ==
  /\ c \in calls
  /\ c.op = "closePin"
  /\ calls' = calls \ {c}
  /\ pendingCloseIssueNumbers' =
       IF c.ok THEN pendingCloseIssueNumbers \ {c.num} ELSE pendingCloseIssueNumbers
  /\ lastMerge' = NoMerge
  /\ UNCHANGED <<threads, threadsRef, configured, hiddenIssueNumbers, removedThreadIds,
                 syncVars, clockVars, remoteVars, backfills, retries, closeRequested,
                 removedPins>>


\* ----------------------------------------------------------------- addReply
\* added is history only: the id of the Comment that the addReply running this
\* invocation has appended
NoBackfill ==
  [pid |-> 0, threadId |-> NoId, route |-> "", version |-> NoVersion, pc |-> "issue",
   ensured |-> 0, comments |-> <<>>, queue |-> <<>>, created |-> {}, guard |-> 0,
   cur |-> NoComment, ok |-> FALSE, val |-> 0, added |-> NoId]

\* createdGitHubIdsByLocalId, a Map kept as a set of <<local id, remote id>>
MapHas(m, k) == \E p \in m : p[1] = k
MapGet(m, k) == IF MapHas(m, k) THEN (CHOOSE p \in m : p[1] = k)[2] ELSE 0
MapSet(m, k, v) == {p \in m : p[1] # k} \cup {<<k, v>>}

Pending(cs) == FilterSeqBy(cs, {i \in DOMAIN cs : cs[i].githubCommentId = 0})

\* canSync (lines 571-580)
canSync(c, b) ==
  LET parent == FindComment(b.comments, c.parentCommentId)
      pendingIds == {x.id : x \in Range(Pending(b.comments))}
  IN \/ c.parentCommentId = NoId
     \/ parent.id = NoId
     \/ parent.githubCommentId # 0
     \/ MapHas(b.created, parent.id)
     \/ parent.id \notin pendingIds

\* a drain that takes the newest queued comment whatever its parent
NextToSync_Newest(b) == Len(b.queue)

\* queue.findIndex(canSync) (line 586), 0 when there is none
NextToSync(b) == FirstIdx(b.queue, {i \in DOMAIN b.queue : canSync(b.queue[i], b)})

\* a drain loop that leaves the Comment it pushes in the queue
DrainLoop_KeepsQueue(b, ths, rest) ==
  LET idx == NextToSync(b)
  IN IF Len(b.queue) = 0 \/ b.guard >= GuardLimit \/ idx = 0
     THEN /\ threads' = MapThread(ths, b.threadId, LAMBDA t : SetStatus(t, "synced", ""))
          /\ backfills' = rest
          /\ UNCHANGED remoteVars
     ELSE LET c == b.queue[idx]
              parentForBody == IF c.parentCommentId # NoId
                               THEN FindComment(b.comments, c.parentCommentId)
                               ELSE NoComment
              resolved == IF parentForBody.githubCommentId # 0
                          THEN parentForBody.githubCommentId
                          ELSE IF parentForBody.id # NoId
                               THEN MapGet(b.created, parentForBody.id)
                               ELSE 0
              G(cc) == [cc EXCEPT !.parentGitHubCommentId = resolved]
              F(t) == [t EXCEPT !.comments = MapComment(@, c.id, G)]
              ths2 == IF c.parentCommentId # NoId /\ resolved # 0
                      THEN MapThread(ths, b.threadId, F)
                      ELSE ths
              body == buildGitHubReplyBody(c.text,
                        IF resolved # 0
                        THEN [parentForBody EXCEPT !.githubCommentId = resolved]
                        ELSE parentForBody)
          IN \E ok \in BOOLEAN :
               /\ RemoteCreateComment(ok, b.ensured, body)
               /\ threads' = ths2
               /\ backfills' = rest \cup
                    {[b EXCEPT !.pc = "comment",
                               !.queue = b.queue,
                               !.cur = c, !.ok = ok,
                               !.val = IF ok THEN lastCommentId + 1 ELSE 0,
                               !.guard = b.guard + 1]}

\* The drain loop (lines 582-625) from its head up to the next await, or up
\* to the final setThreads (lines 627-629) when the loop ends.
DrainLoop(b, ths, rest) ==
  LET idx == NextToSync(b)
  IN IF Len(b.queue) = 0 \/ b.guard >= GuardLimit \/ idx = 0
     THEN /\ threads' = MapThread(ths, b.threadId, LAMBDA t : SetStatus(t, "synced", ""))
          /\ backfills' = rest
          /\ UNCHANGED remoteVars
     ELSE LET c == b.queue[idx]
              parentForBody == IF c.parentCommentId # NoId
                               THEN FindComment(b.comments, c.parentCommentId)
                               ELSE NoComment
              resolved == IF parentForBody.githubCommentId # 0
                          THEN parentForBody.githubCommentId
                          ELSE IF parentForBody.id # NoId
                               THEN MapGet(b.created, parentForBody.id)
                               ELSE 0
              G(cc) == [cc EXCEPT !.parentGitHubCommentId = resolved]
              F(t) == [t EXCEPT !.comments = MapComment(@, c.id, G)]
              ths2 == IF c.parentCommentId # NoId /\ resolved # 0
                      THEN MapThread(ths, b.threadId, F)
                      ELSE ths
              body == buildGitHubReplyBody(c.text,
                        IF resolved # 0
                        THEN [parentForBody EXCEPT !.githubCommentId = resolved]
                        ELSE parentForBody)
          IN \E ok \in BOOLEAN :
               /\ RemoteCreateComment(ok, b.ensured, body)
               /\ threads' = ths2
               /\ backfills' = rest \cup
                    {[b EXCEPT !.pc = "comment",
                               !.queue = FilterSeqBy(b.queue, DOMAIN b.queue \ {idx}),
                               !.cur = c, !.ok = ok,
                               !.val = IF ok THEN lastCommentId + 1 ELSE 0,
                               !.guard = b.guard + 1]}

\* Lines 564-569: the snapshot the drain works on.
DrainStart(b, ths, rest) ==
  LET comments == FindThread(threadsRef, b.threadId).comments
  IN DrainLoop([b EXCEPT !.comments = comments, !.queue = Pending(comments),
                         !.created = {}, !.guard = 0], ths, rest)

\* ensureIssueAndBackfill from its call to its first await (lines 521-538);
\* snapIssue, route and version are those of the `thread` addReply captured,
\* added is its localCommentId.
ensureIssueAndBackfill(threadId, snapIssue, route, version, ths, added) ==
  LET ths1 == MapThread(ths, threadId, LAMBDA t : SetStatus(t, "syncing", ""))
      b == [NoBackfill EXCEPT !.pid = FreePid(backfills), !.threadId = threadId, !.route = route,
                              !.version = version, !.ensured = snapIssue,
                              !.added = added]
  IN IF snapIssue = 0
     THEN \E ok \in BOOLEAN :
            /\ RemoteCreateIssue(ok, route, version, threadId)
            /\ threads' = ths1
            /\ backfills' = backfills \cup
                 {[b EXCEPT !.pc = "issue", !.ok = ok, !.val = CreatedNumber(ok)]}
            /\ UNCHANGED lastCommentId
     ELSE DrainStart(b, ths1, backfills)

NewComment(id, text, parentCommentId, parent) ==
  [id |-> id, text |-> text, createdAt |-> now, githubCommentId |-> 0,
   parentCommentId |-> parentCommentId,
   parentGitHubCommentId |-> parent.githubCommentId]

\* an addReply that pushes without asking whether the user is signed in
addReply_Unguarded(threadId, text, parentCommentId) ==
  LET localCommentId == CommentId(now)
      thread == FindThread(threadsRef, threadId)
      parent == IF parentCommentId # NoId
                THEN FindComment(thread.comments, parentCommentId)
                ELSE NoComment
      F(t) == [t EXCEPT !.comments =
                 Append(@, NewComment(localCommentId, text, parentCommentId, parent))]
      ths1 == MapThread(threads, threadId, F)
  IN /\ nowUsed' = TRUE
     /\ IF thread.id = NoId
        THEN /\ threads' = ths1
             /\ UNCHANGED <<remoteVars, calls, backfills>>
        ELSE IF thread.issueNumber # 0
                /\ ~(parentCommentId # NoId /\ parent.id # NoId /\ parent.githubCommentId = 0)
        THEN \E ok \in BOOLEAN :
               /\ RemoteCreateComment(ok, thread.issueNumber,
                                      buildGitHubReplyBody(text, parent))
               /\ threads' = ths1
               /\ calls' = calls \cup
                    {[NoCall EXCEPT !.pid = FreePid(calls), !.op = "createComment", !.threadId = threadId,
                                    !.commentId = localCommentId,
                                    !.num = thread.issueNumber, !.ok = ok,
                                    !.val = IF ok THEN lastCommentId + 1 ELSE 0]}
               /\ UNCHANGED backfills
        ELSE /\ ensureIssueAndBackfill(threadId, thread.issueNumber, thread.route,
                                       thread.version, ths1, localCommentId)
             /\ UNCHANGED calls
     /\ lastMerge' = NoMerge
     /\ UNCHANGED <<threadsRef, configured, localVars, syncVars, now, pinsDropped,
                    retries, closeRequested, removedPins>>

addReply(threadId, text, parentCommentId) ==
  LET localCommentId == CommentId(now)
      thread == FindThread(threadsRef, threadId)
      parent == IF parentCommentId # NoId
                THEN FindComment(thread.comments, parentCommentId)
                ELSE NoComment
      F(t) == [t EXCEPT !.comments =
                 Append(@, NewComment(localCommentId, text, parentCommentId, parent))]
      ths1 == MapThread(threads, threadId, F)
  IN /\ nowUsed' = TRUE
     /\ IF ~configured \/ thread.id = NoId
        THEN /\ threads' = ths1
             /\ UNCHANGED <<remoteVars, calls, backfills>>
        ELSE IF thread.issueNumber # 0
                /\ ~(parentCommentId # NoId /\ parent.id # NoId /\ parent.githubCommentId = 0)
        THEN \E ok \in BOOLEAN :
               /\ RemoteCreateComment(ok, thread.issueNumber,
                                      buildGitHubReplyBody(text, parent))
               /\ threads' = ths1
               /\ calls' = calls \cup
                    {[NoCall EXCEPT !.pid = FreePid(calls), !.op = "createComment", !.threadId = threadId,
                                    !.commentId = localCommentId,
                                    !.num = thread.issueNumber, !.ok = ok,
                                    !.val = IF ok THEN lastCommentId + 1 ELSE 0]}
               /\ UNCHANGED backfills
        ELSE /\ ensureIssueAndBackfill(threadId, thread.issueNumber, thread.route,
                                       thread.version, ths1, localCommentId)
             /\ UNCHANGED calls
     /\ lastMerge' = NoMerge
     /\ UNCHANGED <<threadsRef, configured, localVars, syncVars, now, pinsDropped,
                    retries, closeRequested, removedPins>>

\* The .then / .catch of addReply's direct createComment (lines 651-670).
addReplyCreateCommentDone(c) ==
  /\ c \in calls
  /\ c.op = "createComment"
  /\ calls' = calls \ {c}
  /\ IF c.ok
     THEN LET G(cc) == [cc EXCEPT !.githubCommentId = c.val]
              F(t) == [SetStatus(t, "synced", "") EXCEPT !.comments = MapComment(@, c.commentId, G)]
          IN /\ threads' = MapThread(threads, c.threadId, F)
             /\ UNCHANGED <<remoteVars, backfills>>
     ELSE ensureIssueAndBackfill(c.threadId, c.num, "", NoVersion, threads, c.commentId)
  /\ lastMerge' = NoMerge
  /\ UNCHANGED <<threadsRef, configured, localVars, syncVars, clockVars, retries,
                 closeRequested, removedPins>>

\* The continuation of ensureIssueAndBackfill after createIssue (lines 540-560).
backfillIssueDone(b) ==
  /\ b \in backfills
  /\ b.pc = "issue"
  /\ IF ~b.ok
     THEN /\ threads' = MapThread(threads, b.threadId,
                          LAMBDA t : SetStatus(t, "pending", "Failed to create issue"))
          /\ backfills' = backfills \ {b}
          /\ UNCHANGED remoteVars
     ELSE LET F(t) == [SetStatus(t, "syncing", "") EXCEPT !.issueNumber = b.val]
          IN DrainStart([b EXCEPT !.ensured = b.val], MapThread(threads, b.threadId, F),
                        backfills \ {b})
  /\ lastMerge' = NoMerge
  /\ UNCHANGED <<threadsRef, configured, localVars, syncVars, clockVars, calls, retries,
                 closeRequested, removedPins>>

\* The continuation after a createComment of the drain loop (lines 611-624).
backfillCommentDone(b) ==
  /\ b \in backfills
  /\ b.pc = "comment"
  /\ IF ~b.ok
     THEN /\ threads' = MapThread(threads, b.threadId,
                          LAMBDA t : SetStatus(t, "pending", "Failed to create GitHub comment"))
          /\ backfills' = backfills \ {b}
          /\ UNCHANGED remoteVars
     ELSE LET G(cc) == [cc EXCEPT !.githubCommentId = b.val]
              F(t) == [t EXCEPT !.comments = MapComment(@, b.cur.id, G)]
          IN DrainLoop([b EXCEPT !.created = MapSet(b.created, b.cur.id, b.val)],
                       MapThread(threads, b.threadId, F), backfills \ {b})
  /\ lastMerge' = NoMerge
  /\ UNCHANGED <<threadsRef, configured, localVars, syncVars, clockVars, calls, retries,
                 closeRequested, removedPins>>


\* ---------------------------------------------------------------- retrySync
\* start and failed are history only: the collection when the pass began and
\* the Threads for which a call of the pass has failed
NoRetry ==
  [pid |-> 0, phase |-> "issues", current |-> <<>>, i |-> 0, localOnly |-> <<>>, j |-> 0,
   ok |-> FALSE, val |-> 0, start |-> <<>>, failed |-> {}]

\* a finally block that leaves the counter as it is
Dec_Never(c) == c

\* Math.max(0, c - 1) (lines 477, 980)
Dec(c) == IF c - 1 > 0 THEN c - 1 ELSE 0

RawBody(text) == [marker |-> 0, lines |-> text]

\* The comment phase (lines 949-978) from thread index `from` to the next
\* await, or to the finally block; cnt is the counter before the finally.
RetryCommentsLoop(r, from, ths, rest, cnt) ==
  LET S == {k \in DOMAIN r.current :
              /\ k >= from
              /\ r.current[k].issueNumber # 0
              /\ Len(Pending(r.current[k].comments)) > 0}
      k == FirstIdx(r.current, S)
  IN IF k = 0
     THEN /\ threads' = ths
          /\ syncInFlightCount' = Dec(cnt)
          /\ retries' = rest
          /\ UNCHANGED remoteVars
     ELSE LET t == r.current[k]
              localOnly == Pending(t.comments)
          IN \E ok \in BOOLEAN :
               /\ RemoteCreateComment(ok, t.issueNumber, RawBody(localOnly[1].text))
               /\ threads' = MapThread(ths, t.id, LAMBDA x : SetStatus(x, "syncing", ""))
               /\ retries' = rest \cup
                    {[r EXCEPT !.phase = "comments", !.i = k, !.localOnly = localOnly,
                               !.j = 1, !.ok = ok,
                               !.val = IF ok THEN lastCommentId + 1 ELSE 0,
                               !.failed = IF ok THEN @ ELSE @ \cup {t.id}]}
               /\ syncInFlightCount' = cnt

\* The issue phase (lines 918-945) from thread index `from` to the next await;
\* when the loop ends, line 948 re-reads threadsRef.current.
RetryIssuesLoop(r, from, ths, rest, cnt) ==
  LET S == {k \in DOMAIN r.current :
              /\ k >= from
              /\ r.current[k].issueNumber = 0
              /\ r.current[k].syncStatus \in {"error", "pending", "syncing", "local"}}
      k == FirstIdx(r.current, S)
  IN IF k = 0
     THEN RetryCommentsLoop([r EXCEPT !.current = threadsRef], 1, ths, rest, cnt)
     ELSE LET t == r.current[k]
          IN \E ok \in BOOLEAN :
               /\ RemoteCreateIssue(ok, t.route, t.version, t.id)
               /\ threads' = MapThread(ths, t.id, LAMBDA x : SetStatus(x, "syncing", ""))
               /\ retries' = rest \cup
                    {[r EXCEPT !.phase = "issues", !.i = k, !.ok = ok,
                               !.val = CreatedNumber(ok),
                               !.failed = IF ok THEN @ ELSE @ \cup {t.id}]}
               /\ syncInFlightCount' = cnt
               /\ UNCHANGED lastCommentId

retrySync ==
  /\ configured
  /\ RetryIssuesLoop([NoRetry EXCEPT !.pid = FreePid(retries), !.current = threadsRef,
                                     !.start = threads], 1, threads, retries,
                     syncInFlightCount + 1)
  /\ lastMerge' = NoMerge
  /\ UNCHANGED <<threadsRef, configured, localVars, syncInFlightByKey, syncs, clockVars,
                 calls, backfills, closeRequested, removedPins>>

\* The continuation after the createIssue of the issue phase (lines 932-944).
retryIssueDone(r) ==
  /\ r \in retries
  /\ r.phase = "issues"
  /\ LET t == r.current[r.i]
         F(x) == IF r.ok
                 THEN [SetStatus(x, "synced", "") EXCEPT !.issueNumber = r.val]
                 ELSE SetStatus(x, "error", "Failed to create issue")
     IN RetryIssuesLoop(r, r.i + 1, MapThread(threads, t.id, F), retries \ {r},
                        syncInFlightCount)
  /\ lastMerge' = NoMerge
  /\ UNCHANGED <<threadsRef, configured, localVars, syncInFlightByKey, syncs, clockVars,
                 calls, backfills, closeRequested, removedPins>>

\* The continuation after a createComment of the comment phase (lines 958-977).
retryCommentDone(r) ==
  /\ r \in retries
  /\ r.phase = "comments"
  /\ LET t == r.current[r.i]
         c == r.localOnly[r.j]
         G(cc) == [cc EXCEPT !.githubCommentId = r.val]
         F(x) == IF r.ok
                 THEN [x EXCEPT !.comments = MapComment(@, c.id, G)]
                 ELSE SetStatus(x, "pending", "Failed to sync comment")
         ths1 == MapThread(threads, t.id, F)
     IN IF r.j < Len(r.localOnly)
        THEN \E ok \in BOOLEAN :
               /\ RemoteCreateComment(ok, t.issueNumber, RawBody(r.localOnly[r.j + 1].text))
               /\ threads' = ths1
               /\ retries' = (retries \ {r}) \cup
                    {[r EXCEPT !.j = r.j + 1, !.ok = ok,
                               !.val = IF ok THEN lastCommentId + 1 ELSE 0,
                               !.failed = IF ok THEN @ ELSE @ \cup {t.id}]}
               /\ UNCHANGED syncInFlightCount
        ELSE RetryCommentsLoop(r, r.i + 1,
                               MapThread(ths1, t.id, LAMBDA x : SetStatus(x, "synced", "")),
                               retries \ {r}, syncInFlightCount)
  /\ lastMerge' = NoMerge
  /\ UNCHANGED <<threadsRef, configured, localVars, syncInFlightByKey, syncs, clockVars,
                 calls, backfills, closeRequested, removedPins>>

\* ------------------------------------------------------------ syncFromGitHub
V1(v) == IF v = NoVersion THEN "1" ELSE v

\* the scope predicate of lines 349, 452 and 462
InScope(t, route, version) == t.route = route /\ V1(t.version) = V1(version)

\* githubAdapter.fetchIssuesForRouteAndVersion (part_004 222-257); the
\* tracker lists the newest issue first.
IssueMatches(issue, route, version) ==
  /\ issue.route = route
  /\ \/ version = NoVersion
     \/ (issue.version = NoVersion /\ version = "1")
     \/ issue.version = version

RECURSIVE FetchFrom(_, _, _)
FetchFrom(n, route, version) ==
  IF n = 0 THEN <<>>
  ELSE (IF IssueMatches(remoteIssues[n], route, version)
        THEN <<[number |-> n, state |-> remoteIssues[n].state]>>
        ELSE <<>>) \o FetchFrom(n - 1, route, version)

fetchIssuesForRouteAndVersion(route, version) == FetchFrom(Len(remoteIssues), route, version)

AtomLen(s) == IF s = "Replying to comment" THEN 19 ELSE IF s = "a" THEN 1 ELSE 12

RECURSIVE CharLen(_)
CharLen(t) ==
  IF Len(t) = 0 THEN 0
  ELSE 2 * t[1].q + AtomLen(t[1].s) + (IF Len(t) > 1 THEN 1 ELSE 0) + CharLen(Tail(t))

\* the leading quoted block of a text (lines 78-87), one quote level removed
RECURSIVE LeadingQuoted(_)
LeadingQuoted(t) ==
  IF Len(t) = 0 \/ t[1].q = 0 THEN <<>>
  ELSE <<[q |-> t[1].q - 1, s |-> t[1].s]>> \o LeadingQuoted(Tail(t))

\* hay.indexOf(needle) !== -1 on texts made of whole lines
ContainsAt(hay, needle, p) ==
  /\ p + Len(needle) - 1 <= Len(hay)
  /\ \A k \in DOMAIN needle :
       /\ hay[p + k - 1].s = needle[k].s
       /\ IF k = 1 THEN needle[k].q <= hay[p + k - 1].q
          ELSE needle[k].q = hay[p + k - 1].q

Contains(hay, needle) == \E p \in DOMAIN hay : ContainsAt(hay, needle, p)

\* a quote fallback in which the last matching candidate wins
inferReplyParentFromQuote_Last(body, candidates) ==
  LET snippet == LeadingQuoted(stripHaleReplyMarkers(body))
      S == {i \in DOMAIN candidates :
              /\ candidates[i].githubCommentId # 0
              /\ Contains(candidates[i].text, snippet)}
  IN IF CharLen(snippet) < MinSnippet \/ S = {} THEN 0
     ELSE candidates[CHOOSE i \in S : \A j \in S : j <= i].githubCommentId

\* inferReplyParentFromQuote (lines 72-103): every match has the same score,
\* so the first matching candidate wins.
inferReplyParentFromQuote(body, candidates) ==
  LET snippet == LeadingQuoted(stripHaleReplyMarkers(body))
      S == {i \in DOMAIN candidates :
              /\ candidates[i].githubCommentId # 0
              /\ Contains(candidates[i].text, snippet)}
  IN IF CharLen(snippet) < MinSnippet \/ S = {} THEN 0
     ELSE candidates[FirstIdx(candidates, S)].githubCommentId

\* lines 386-406
MapRemoteComments(ghComments) ==
  LET mapped == [i \in DOMAIN ghComments |->
                   [id |-> GhCommentId(ghComments[i].id),
                    githubCommentId |-> ghComments[i].id,
                    parentGitHubCommentId |-> parseReplyParentFromGitHubBody(ghComments[i].body),
                    parentCommentId |-> NoId,
                    text |-> stripHaleReplyMarkers(ghComments[i].body),
                    createdAt |-> ghComments[i].createdAt]]
      Inferred(i) == inferReplyParentFromQuote(ghComments[i].body, mapped)
  IN [i \in DOMAIN mapped |->
        IF mapped[i].parentGitHubCommentId = 0
           /\ Inferred(i) # 0 /\ Inferred(i) # mapped[i].githubCommentId
        THEN [mapped[i] EXCEPT !.parentGitHubCommentId = Inferred(i)]
        ELSE mapped[i]]

\* lines 408-420
GhThread(issue, route, version, comments) ==
  [id |-> GhThreadId(issue.number), route |-> route, version |-> version,
   comments |-> comments, issueNumber |-> issue.number, syncStatus |-> "synced",
   syncError |-> "", status |-> IF issue.state = "closed" THEN "closed" ELSE "open"]

\* the updater of lines 424-475
LastWithIssue(prev, n) ==
  LET S == {i \in DOMAIN prev : prev[i].issueNumber = n}
  IN IF S = {} THEN NoThread ELSE prev[CHOOSE i \in S : \A j \in S : j <= i]

MergeOne(prev, gt) ==
  LET existing == LastWithIssue(prev, gt.issueNumber)
  IN IF existing.id = NoId THEN gt
     ELSE [gt EXCEPT !.version = IF gt.version # NoVersion THEN gt.version ELSE existing.version,
                     !.comments = gt.comments \o Pending(existing.comments)]

\* a merge that rebuilds the collection from the pass's own scope alone
Merge_OwnScopeOnly(prev, ghThreads, route, version) ==
  LET merged == [i \in DOMAIN ghThreads |-> MergeOne(prev, ghThreads[i])]
      localUnlinked == {i \in DOMAIN prev :
                          /\ InScope(prev[i], route, version)
                          /\ (prev[i].issueNumber = 0 \/ prev[i].syncStatus = "syncing")}
  IN FilterSeqBy(prev, localUnlinked) \o merged

Merge(prev, ghThreads, route, version) ==
  LET merged == [i \in DOMAIN ghThreads |-> MergeOne(prev, ghThreads[i])]
      localUnlinked == {i \in DOMAIN prev :
                          /\ InScope(prev[i], route, version)
                          /\ (prev[i].issueNumber = 0 \/ prev[i].syncStatus = "syncing")}
      deduped == {i \in localUnlinked :
                    ~\E m \in DOMAIN merged :
                       merged[m].issueNumber # 0 /\ merged[m].issueNumber = prev[i].issueNumber}
      other == {i \in DOMAIN prev : ~InScope(prev[i], route, version)}
  IN FilterSeqBy(prev, other) \o FilterSeqBy(prev, deduped) \o merged

\* hid records the tombstone set the pass filtered with, failed the issues
\* whose fetchIssueComments has failed (history only)
NoSync ==
  [pid |-> 0, route |-> "", version |-> NoVersion, pc |-> "list", issues |-> <<>>, idx |-> 0,
   ghThreads |-> <<>>, ok |-> FALSE, hid |-> {}, failed |-> {}]

SyncKey(route, version) == <<route, version>>

\* a finally block that leaves the pass's key in the map
SyncFinally_KeepsKey(s, rest) ==
  /\ syncInFlightCount' = Dec(syncInFlightCount)
  /\ syncInFlightByKey' = syncInFlightByKey
  /\ syncs' = rest

\* the finally block (lines 476-479)
SyncFinally(s, rest) ==
  /\ syncInFlightCount' = Dec(syncInFlightCount)
  /\ syncInFlightByKey' = syncInFlightByKey \ {SyncKey(s.route, s.version)}
  /\ syncs' = rest

\* the loop of lines 373-421 from issue idx to the next await, or the merge
SyncLoop(s, rest) ==
  IF s.idx > Len(s.issues)
  THEN /\ threads' = Merge(threads, s.ghThreads, s.route, s.version)
       /\ lastMerge' = [key |-> SyncKey(s.route, s.version), candidates |-> s.ghThreads]
       /\ SyncFinally(s, rest)
  ELSE /\ \E ok \in BOOLEAN :
            /\ ok => configured
            /\ syncs' = rest \cup {[s EXCEPT !.pc = "comments", !.ok = ok]}
       /\ UNCHANGED <<threads, syncInFlightCount, syncInFlightByKey, lastMerge>>

syncFromGitHub(route, version) ==
  /\ configured
  /\ SyncKey(route, version) \notin syncInFlightByKey
  /\ ~\E i \in DOMAIN threadsRef :
        InScope(threadsRef[i], route, version) /\ threadsRef[i].syncStatus = "syncing"
  /\ syncInFlightCount' = syncInFlightCount + 1
  /\ syncInFlightByKey' = syncInFlightByKey \cup {SyncKey(route, version)}
  /\ \E ok \in BOOLEAN :
       syncs' = syncs \cup {[NoSync EXCEPT !.pid = FreePid(syncs), !.route = route,
                                       !.version = version, !.ok = ok]}
  /\ UNCHANGED <<threads, threadsRef, configured, localVars, clockVars, remoteVars, calls,
                 backfills, retries, closeRequested, removedPins, lastMerge>>

\* the continuation after fetchIssuesForRouteAndVersion (lines 362-383)
syncListDone(s) ==
  /\ s \in syncs
  /\ s.pc = "list"
  /\ IF ~s.ok
     THEN SyncFinally(s, syncs \ {s}) /\ UNCHANGED <<threads, lastMerge>>
     ELSE LET fetched == fetchIssuesForRouteAndVersion(s.route, s.version)
              issues == FilterSeqBy(fetched,
                          {i \in DOMAIN fetched : fetched[i].number \notin hiddenIssueNumbers})
          IN SyncLoop([s EXCEPT !.issues = issues, !.idx = 1, !.ghThreads = <<>>,
                                !.hid = hiddenIssueNumbers], syncs \ {s})
  /\ UNCHANGED <<threadsRef, configured, localVars, clockVars, remoteVars, calls,
                 backfills, retries, closeRequested, removedPins>>

\* the continuation after fetchIssueComments (lines 384-421)
syncCommentsDone(s) ==
  /\ s \in syncs
  /\ s.pc = "comments"
  /\ LET issue == s.issues[s.idx]
         ghComments == IF s.ok THEN remoteIssues[issue.number].comments ELSE <<>>
         gt == GhThread(issue, s.route, s.version, MapRemoteComments(ghComments))
     IN SyncLoop([s EXCEPT !.idx = s.idx + 1, !.ghThreads = Append(s.ghThreads, gt),
                           !.failed = IF s.ok THEN @ ELSE @ \cup {issue.number}],
                 syncs \ {s})
  /\ UNCHANGED <<threadsRef, configured, localVars, clockVars, remoteVars, calls,
                 backfills, retries, closeRequested, removedPins>>


\* ------------------------------------------------- updateComment, deleteComment
\* githubAdapter.deleteComment (part_004 286-296)
RemoteDeleteComment(ok, ghId) ==
  /\ ok => (configured /\ \E n \in DOMAIN remoteIssues :
                            \E k \in DOMAIN remoteIssues[n].comments :
                               remoteIssues[n].comments[k].id = ghId)
  /\ remoteIssues' =
       IF ok
       THEN [n \in DOMAIN remoteIssues |->
               [remoteIssues[n] EXCEPT !.comments =
                  FilterSeqBy(@, {k \in DOMAIN @ : @[k].id # ghId})]]
       ELSE remoteIssues

\* githubAdapter.updateComment (part_004 274-284)
RemoteUpdateComment(ok, ghId, body) ==
  /\ ok => (configured /\ \E n \in DOMAIN remoteIssues :
                            \E k \in DOMAIN remoteIssues[n].comments :
                               remoteIssues[n].comments[k].id = ghId)
  /\ remoteIssues' =
       IF ok
       THEN [n \in DOMAIN remoteIssues |->
               [remoteIssues[n] EXCEPT !.comments =
                  [k \in DOMAIN @ |-> IF @[k].id = ghId THEN [@[k] EXCEPT !.body = body]
                                      ELSE @[k]]]]
       ELSE remoteIssues

updateComment(threadId, commentId, text) ==
  LET thread == FindThread(threadsRef, threadId)
      existingComment == FindComment(thread.comments, commentId)
      G(cc) == [cc EXCEPT !.text = text]
      F(t) == [t EXCEPT !.comments = MapComment(@, commentId, G)]
  IN /\ threads' = MapThread(threads, threadId, F)
     /\ IF configured /\ thread.issueNumber # 0 /\ existingComment.githubCommentId # 0
        THEN \E ok \in BOOLEAN :
               /\ RemoteUpdateComment(ok, existingComment.githubCommentId, RawBody(text))
               /\ calls' = calls \cup
                    {[NoCall EXCEPT !.pid = FreePid(calls), !.op = "updateComment", !.threadId = threadId,
                                    !.commentId = commentId, !.ok = ok,
                                    !.num = existingComment.githubCommentId]}
        ELSE UNCHANGED <<remoteIssues, calls>>
     /\ lastMerge' = NoMerge
     /\ UNCHANGED <<threadsRef, configured, localVars, syncVars, clockVars, lastCommentId,
                    backfills, retries, closeRequested, removedPins>>

\* The .then handler of updateComment (lines 697-709).
updateCommentDone(c) ==
  /\ c \in calls
  /\ c.op = "updateComment"
  /\ calls' = calls \ {c}
  /\ threads' = MapThread(threads, c.threadId,
                  LAMBDA t : IF c.ok THEN SetStatus(t, "synced", "")
                             ELSE SetStatus(t, "pending", "Failed to update comment"))
  /\ lastMerge' = NoMerge
  /\ UNCHANGED <<threadsRef, configured, localVars, syncVars, clockVars, remoteVars,
                 backfills, retries, closeRequested, removedPins>>

deleteComment(threadId, commentId) ==
  LET thread == FindThread(threadsRef, threadId)
      existingComment == FindComment(thread.comments, commentId)
      F(t) == [t EXCEPT !.comments =
                 FilterSeqBy(@, {k \in DOMAIN @ : @[k].id # commentId})]
  IN /\ threads' = MapThread(threads, threadId, F)
     /\ IF configured /\ thread.issueNumber # 0 /\ existingComment.githubCommentId # 0
        THEN \E ok \in BOOLEAN :
               /\ RemoteDeleteComment(ok, existingComment.githubCommentId)
               /\ calls' = calls \cup
                    {[NoCall EXCEPT !.pid = FreePid(calls), !.op = "deleteComment", !.threadId = threadId,
                                    !.commentId = commentId, !.ok = ok,
                                    !.num = existingComment.githubCommentId,
                                    !.saved = existingComment]}
        ELSE UNCHANGED <<remoteIssues, calls>>
     /\ lastMerge' = NoMerge
     /\ UNCHANGED <<threadsRef, configured, localVars, syncVars, clockVars, lastCommentId,
                    backfills, retries, closeRequested, removedPins>>

\* The .then handler of deleteComment (lines 745-770).
deleteCommentDone(c) ==
  /\ c \in calls
  /\ c.op = "deleteComment"
  /\ calls' = calls \ {c}
  /\ LET F(t) == IF c.ok THEN SetStatus(t, "synced", "")
                 ELSE IF c.saved.id # NoId
                 THEN [SetStatus(t, "error", "Failed to delete comment on GitHub")
                         EXCEPT !.comments = Append(@, c.saved)]
                 ELSE t
     IN threads' = MapThread(threads, c.threadId, F)
  /\ lastMerge' = NoMerge
  /\ UNCHANGED <<threadsRef, configured, localVars, syncVars, clockVars, remoteVars,
                 backfills, retries, closeRequested, removedPins>>

\* ---------------------------------------------------- closeThread, reopenThread
SetThreadState(threadId, st, op) ==
  LET thread == FindThread(threadsRef, threadId)
  IN /\ threads' = MapThread(threads, threadId, LAMBDA t : [t EXCEPT !.status = st])
     /\ IF configured /\ thread.issueNumber # 0
        THEN \E ok \in BOOLEAN :
               /\ RemoteSetState(ok, thread.issueNumber, st)
               /\ calls' = calls \cup
                    {[NoCall EXCEPT !.pid = FreePid(calls), !.op = op, !.threadId = threadId,
                                    !.num = thread.issueNumber, !.ok = ok]}
        ELSE UNCHANGED <<remoteIssues, calls>>
     /\ lastMerge' = NoMerge
     /\ UNCHANGED <<threadsRef, configured, localVars, syncVars, clockVars, lastCommentId,
                    backfills, retries, closeRequested, removedPins>>

closeThread(threadId) == SetThreadState(threadId, "closed", "closeIssue")

reopenThread(threadId) == SetThreadState(threadId, "open", "reopenIssue")

\* a failure handler that also takes the user's close or reopen back
SetThreadStateDone_Rollback(c, msg) ==
  /\ c \in calls
  /\ calls' = calls \ {c}
  /\ threads' = MapThread(threads, c.threadId,
                  LAMBDA t : IF c.ok THEN SetStatus(t, "synced", "")
                             ELSE [SetStatus(t, "error", msg) EXCEPT
                                     !.status = IF @ = "closed" THEN "open" ELSE "closed"])
  /\ lastMerge' = NoMerge
  /\ UNCHANGED <<threadsRef, configured, localVars, syncVars, clockVars, remoteVars,
                 backfills, retries, closeRequested, removedPins>>

\* The .then handlers of closeThread and reopenThread (lines 819-835, 854-870).
SetThreadStateDone(c, msg) ==
  /\ c \in calls
  /\ calls' = calls \ {c}
  /\ threads' = MapThread(threads, c.threadId,
                  LAMBDA t : IF c.ok THEN SetStatus(t, "synced", "")
                             ELSE SetStatus(t, "error", msg))
  /\ lastMerge' = NoMerge
  /\ UNCHANGED <<threadsRef, configured, localVars, syncVars, clockVars, remoteVars,
                 backfills, retries, closeRequested, removedPins>>

closeThreadDone(c) == c.op = "closeIssue" /\ SetThreadStateDone(c, "Failed to close issue")

reopenThreadDone(c) == c.op = "reopenIssue" /\ SetThreadStateDone(c, "Failed to reopen issue")

\* ------------------------------------------------------------ specifications
ShownThreadIds == {threadsRef[i].id : i \in DOMAIN threadsRef}
ShownCommentIds(threadId) == {c.id : c \in Range(FindThread(threadsRef, threadId).comments)}

\* guards that keep a specification finite
CanDrop(n) == Cardinality(pinsDropped) < n
Free(k) == InFlight < k
Fresh == ~nowUsed
Rendered == threadsRef = threads
Room(threadId, n) == Len(FindThread(threads, threadId).comments) < n

\* Thread creation against the backfill and the retry pass.
NextCreate ==
  \/ Render
  \/ now < CreateIds /\ Tick
  \/ Fresh /\ CanDrop(MaxThreads) /\ Free(MaxInFlight) /\ addThread("/r", NoVersion)
  \/ \E c \in calls : addThreadCreateIssueDone(c)
  \/ \E id \in ShownThreadIds : \E t \in UserTexts :
       Fresh /\ Room(id, MaxComments) /\ Free(MaxInFlight) /\ addReply(id, t, NoId)
  \/ \E c \in calls : addReplyCreateCommentDone(c)
  \/ \E b \in backfills : backfillIssueDone(b)
  \/ \E b \in backfills : backfillCommentDone(b)
  \/ Free(MaxInFlight) /\ retrySync
  \/ \E r \in retries : retryIssueDone(r)
  \/ \E r \in retries : retryCommentDone(r)

InitCreate == Init /\ configured

SpecCreate == InitCreate /\ [][NextCreate]_vars


\* Pin removal against thread creation and reconciliation passes.
NextTomb ==
  \/ Render
  \/ now < TombIds /\ Tick
  \/ Fresh /\ CanDrop(TombThreads) /\ Free(MaxInFlight) /\ addThread("/r", NoVersion)
  \/ \E c \in calls : addThreadCreateIssueDone(c)
  \/ \E id \in ShownThreadIds : Free(MaxInFlight) /\ removePin(id)
  \/ \E c \in calls : removePinCloseDone(c)
  \/ Free(MaxInFlight) /\ syncFromGitHub("/r", NoVersion)
  \/ \E s \in syncs : syncListDone(s)
  \/ \E s \in syncs : syncCommentsDone(s)

SpecTomb == InitCreate /\ [][NextTomb]_vars

\* Reconciliation passes of two scopes against pins of two versions.
NextVersions ==
  \/ Render
  \/ now < VersionIds /\ Tick
  \/ \E v \in MergeVersions :
       Fresh /\ CanDrop(MergeThreads) /\ Free(MaxInFlight) /\ addThread("/r", v)
  \/ \E c \in calls : addThreadCreateIssueDone(c)
  \/ \E v \in MergeVersions :
       Len(threads) < MaxShown /\ Free(MaxInFlight) /\ syncFromGitHub("/r", v)
  \/ \E s \in syncs : syncListDone(s)
  \/ \E s \in syncs : syncCommentsDone(s)

SpecVersions == InitCreate /\ [][NextVersions]_vars

\* Reconciliation passes of one scope against pins and replies.
NextMerge ==
  \/ Render
  \/ now < MergeIds /\ Tick
  \/ Fresh /\ CanDrop(MergeThreads) /\ Free(MaxInFlight) /\ addThread("/r", NoVersion)
  \/ \E c \in calls : addThreadCreateIssueDone(c)
  \/ \E id \in ShownThreadIds : \E t \in UserTexts :
       Fresh /\ Room(id, MaxComments) /\ Free(MaxInFlight) /\ addReply(id, t, NoId)
  \/ \E c \in calls : addReplyCreateCommentDone(c)
  \/ \E b \in backfills : backfillIssueDone(b)
  \/ \E b \in backfills : backfillCommentDone(b)
  \/ Free(MaxInFlight) /\ syncFromGitHub("/r", NoVersion)
  \/ \E s \in syncs : syncListDone(s)
  \/ \E s \in syncs : syncCommentsDone(s)

SpecMerge == InitCreate /\ [][NextMerge]_vars

\* Replies written while signed out, pushed by the backfill after sign-in.
NextBackfill ==
  \/ Render
  \/ now < BackfillIds /\ Tick
  \/ SignIn
  \/ Fresh /\ CanDrop(MaxThreads) /\ Free(MaxInFlight) /\ addThread("/r", NoVersion)
  \/ \E c \in calls : addThreadCreateIssueDone(c)
  \/ \E id \in ShownThreadIds : \E t \in UserTexts :
       \E parent \in ShownCommentIds(id) \cup {NoId} :
         Fresh /\ Room(id, BackfillComments) /\ Free(MaxInFlight) /\ addReply(id, t, parent)
  \/ \E c \in calls : addReplyCreateCommentDone(c)
  \/ \E b \in backfills : backfillIssueDone(b)
  \/ \E b \in backfills : backfillCommentDone(b)

InitOffline == Init /\ ~configured

SpecBackfill == InitOffline /\ [][NextBackfill]_vars

\* Pins and replies written while signed out, pushed by the retry pass.
NextRetry ==
  \/ Render
  \/ now < RetryIds /\ Tick
  \/ SignIn
  \/ ~configured /\ Fresh /\ CanDrop(MaxThreads) /\ addThread("/r", NoVersion)
  \/ \E id \in ShownThreadIds : \E t \in UserTexts :
       \E parent \in ShownCommentIds(id) \cup {NoId} :
         ~configured /\ Fresh /\ Room(id, RetryComments) /\ addReply(id, t, parent)
  \/ Free(RetryInFlight) /\ retrySync
  \/ \E r \in retries : retryIssueDone(r)
  \/ \E r \in retries : retryCommentDone(r)

SpecRetry == InitOffline /\ [][NextRetry]_vars

\* Comment deletion against pushes and reconciliation passes; the user and
\* the overlay's effect act on the rendered collection.
NextDelete ==
  \/ Render
  \/ now < DeleteIds /\ Tick
  \/ Rendered /\ Fresh /\ CanDrop(MaxThreads) /\ Free(MaxInFlight) /\ addThread("/r", NoVersion)
  \/ \E c \in calls : addThreadCreateIssueDone(c)
  \/ \E id \in ShownThreadIds : \E t \in UserTexts :
       Rendered /\ Fresh /\ Room(id, MaxComments) /\ Free(MaxInFlight) /\ addReply(id, t, NoId)
  \/ \E c \in calls : addReplyCreateCommentDone(c)
  \/ \E b \in backfills : backfillIssueDone(b)
  \/ \E b \in backfills : backfillCommentDone(b)
  \/ \E id \in ShownThreadIds : \E cid \in ShownCommentIds(id) :
       Rendered /\ Free(MaxInFlight) /\ deleteComment(id, cid)
  \/ \E c \in calls : deleteCommentDone(c)
  \/ Rendered /\ Free(MaxInFlight) /\ syncFromGitHub("/r", NoVersion)
  \/ \E s \in syncs : syncListDone(s)
  \/ \E s \in syncs : syncCommentsDone(s)

SpecDelete == InitCreate /\ [][NextDelete]_vars

\* Edits, closes and reopens of pushed Threads, each remote call free to fail.
NextEdit ==
  \/ Render
  \/ now < EditIds /\ Tick
  \/ Rendered /\ Fresh /\ CanDrop(EditThreads) /\ Free(MaxInFlight) /\ addThread("/r", NoVersion)
  \/ \E c \in calls : addThreadCreateIssueDone(c)
  \/ \E id \in ShownThreadIds : \E t \in UserTexts :
       Rendered /\ Fresh /\ Room(id, MaxComments) /\ Free(MaxInFlight) /\ addReply(id, t, NoId)
  \/ \E c \in calls : addReplyCreateCommentDone(c)
  \/ \E b \in backfills : backfillIssueDone(b)
  \/ \E b \in backfills : backfillCommentDone(b)
  \/ \E id \in ShownThreadIds : \E cid \in ShownCommentIds(id) : \E t \in EditedTexts :
       Rendered /\ Free(MaxInFlight) /\ updateComment(id, cid, t)
  \/ \E c \in calls : updateCommentDone(c)
  \/ \E id \in ShownThreadIds : Rendered /\ Free(MaxInFlight) /\ closeThread(id)
  \/ \E c \in calls : closeThreadDone(c)
  \/ \E id \in ShownThreadIds : Rendered /\ Free(MaxInFlight) /\ reopenThread(id)
  \/ \E c \in calls : reopenThreadDone(c)

SpecEdit == InitCreate /\ [][NextEdit]_vars


\* Reconciliation passes asked for with and without the default version.
NextLock ==
  \/ Render
  \/ now < LockIds /\ Tick
  \/ \E v \in LockVersions :
       Fresh /\ CanDrop(MaxThreads) /\ Free(MaxInFlight) /\ addThread("/r", v)
  \/ \E c \in calls : addThreadCreateIssueDone(c)
  \/ \E v \in LockVersions : Free(LockInFlight) /\ syncFromGitHub("/r", v)
  \/ \E s \in syncs : syncListDone(s)
  \/ \E s \in syncs : syncCommentsDone(s)

SpecLock == InitCreate /\ [][NextLock]_vars

\* The same, with the two fetches of every pass returning: the continuation of
\* a fetch that is in flight runs eventually, whatever the other passes do.
SpecLockFair ==
  /\ SpecLock
  /\ \A p \in 1..LockInFlight :
       /\ WF_vars(\E s \in syncs : s.pid = p /\ syncListDone(s))
       /\ WF_vars(\E s \in syncs : s.pid = p /\ syncCommentsDone(s))

\* Every operation of the provider, signed in and signed out.
NextOffline ==
  \/ Render
  \/ now < OfflineIds /\ Tick
  \/ SignIn
  \/ SignOut
  \/ Rendered /\ Fresh /\ CanDrop(MaxThreads) /\ Free(OfflineInFlight) /\ addThread("/r", NoVersion)
  \/ \E c \in calls : addThreadCreateIssueDone(c)
  \/ \E id \in ShownThreadIds : \E t \in UserTexts :
       Rendered /\ Fresh /\ Room(id, MaxComments) /\ Free(OfflineInFlight) /\ addReply(id, t, NoId)
  \/ \E c \in calls : addReplyCreateCommentDone(c)
  \/ \E b \in backfills : backfillIssueDone(b)
  \/ \E b \in backfills : backfillCommentDone(b)
  \/ \E id \in ShownThreadIds : \E cid \in ShownCommentIds(id) : \E t \in EditedTexts :
       Rendered /\ Free(OfflineInFlight) /\ updateComment(id, cid, t)
  \/ \E c \in calls : updateCommentDone(c)
  \/ \E id \in ShownThreadIds : \E cid \in ShownCommentIds(id) :
       Rendered /\ Free(OfflineInFlight) /\ deleteComment(id, cid)
  \/ \E c \in calls : deleteCommentDone(c)
  \/ \E id \in ShownThreadIds : Rendered /\ Free(OfflineInFlight) /\ closeThread(id)
  \/ \E c \in calls : closeThreadDone(c)
  \/ \E id \in ShownThreadIds : Rendered /\ Free(OfflineInFlight) /\ reopenThread(id)
  \/ \E c \in calls : reopenThreadDone(c)
  \/ \E id \in ShownThreadIds : Rendered /\ Free(OfflineInFlight) /\ removePin(id)
  \/ \E c \in calls : removePinCloseDone(c)
  \/ Rendered /\ Free(OfflineInFlight) /\ syncFromGitHub("/r", NoVersion)
  \/ \E s \in syncs : syncListDone(s)
  \/ \E s \in syncs : syncCommentsDone(s)
  \/ Rendered /\ Free(OfflineInFlight) /\ retrySync
  \/ \E r \in retries : retryIssueDone(r)
  \/ \E r \in retries : retryCommentDone(r)

SpecOffline == InitCreate /\ [][NextOffline]_vars

\* Replies written within one clock tick, against pushes and passes.
NextTick ==
  \/ Render
  \/ now < TickIds /\ Tick
  \/ Rendered /\ Fresh /\ CanDrop(MaxThreads) /\ Free(TickInFlight) /\ addThread("/r", NoVersion)
  \/ \E c \in calls : addThreadCreateIssueDone(c)
  \/ \E id \in ShownThreadIds : \E t \in UserTexts :
       Rendered /\ Room(id, TickComments) /\ Free(TickInFlight) /\ addReply(id, t, NoId)
  \/ \E c \in calls : addReplyCreateCommentDone(c)
  \/ \E b \in backfills : backfillIssueDone(b)
  \/ \E b \in backfills : backfillCommentDone(b)
  \/ Rendered /\ Free(TickInFlight) /\ syncFromGitHub("/r", NoVersion)
  \/ \E s \in syncs : syncListDone(s)
  \/ \E s \in syncs : syncCommentsDone(s)

SpecTick == InitCreate /\ [][NextTick]_vars

\* Reconciliation of an issue whose comments were written on the tracker,
\* by the provider or by hand, before the session started.
LongLine == [q |-> 0, s |-> "hello world!"]
ShortLine == [q |-> 0, s |-> "a"]
NextLine == [q |-> 0, s |-> "second line!"]
FetchTexts ==
  {<<LongLine>>, <<ShortLine>>, <<Quote(LongLine), ShortLine>>, <<Quote(ShortLine), ShortLine>>,
   <<LongLine, NextLine>>, <<Quote(LongLine), Quote(NextLine), ShortLine>>}
FetchMarkers == {0, FetchMarker}
FetchBodies == {[marker |-> m, lines |-> t] : m \in FetchMarkers, t \in FetchTexts}

BodySeqs(n) == [1..n -> FetchBodies]

FetchedIssue(bodies) ==
  [NewIssue("/r", NoVersion, NoId) EXCEPT
     !.comments = [k \in DOMAIN bodies |-> [id |-> k, body |-> bodies[k], createdAt |-> 0]]]

InitFetch ==
  /\ threads = <<>>
  /\ threadsRef = <<>>
  /\ configured = TRUE
  /\ hiddenIssueNumbers = {}
  /\ pendingCloseIssueNumbers = {}
  /\ removedThreadIds = {}
  /\ syncInFlightByKey = {}
  /\ syncInFlightCount = 0
  /\ now = 1
  /\ nowUsed = FALSE
  /\ pinsDropped = {}
  /\ \E n \in 1..FetchComments : \E bodies \in BodySeqs(n) :
       /\ remoteIssues = <<FetchedIssue(bodies)>>
       /\ lastCommentId = n
  /\ calls = {}
  /\ backfills = {}
  /\ retries = {}
  /\ syncs = {}
  /\ closeRequested = {}
  /\ removedPins = {}
  /\ lastMerge = NoMerge

NextFetch ==
  \/ Render
  \/ Free(FetchInFlight) /\ syncFromGitHub("/r", NoVersion)
  \/ \E s \in syncs : syncListDone(s)
  \/ \E s \in syncs : syncCommentsDone(s)

SpecFetch == InitFetch /\ [][NextFetch]_vars

\* Pin removal against the issue creations of the backfill and the retry pass.
NextCancel ==
  \/ Render
  \/ now < CancelIds /\ Tick
  \/ Rendered /\ Fresh /\ CanDrop(MaxThreads) /\ Free(MaxInFlight) /\ addThread("/r", NoVersion)
  \/ \E c \in calls : addThreadCreateIssueDone(c)
  \/ \E id \in ShownThreadIds : \E t \in UserTexts :
       Rendered /\ Fresh /\ Room(id, MaxComments) /\ Free(MaxInFlight) /\ addReply(id, t, NoId)
  \/ \E c \in calls : addReplyCreateCommentDone(c)
  \/ \E b \in backfills : backfillIssueDone(b)
  \/ \E b \in backfills : backfillCommentDone(b)
  \/ \E id \in ShownThreadIds : Rendered /\ Free(MaxInFlight + 1) /\ removePin(id)
  \/ \E c \in calls : removePinCloseDone(c)
  \/ Rendered /\ Free(MaxInFlight) /\ retrySync
  \/ \E r \in retries : retryIssueDone(r)
  \/ \E r \in retries : retryCommentDone(r)

SpecCancel == InitCreate /\ [][NextCancel]_vars

\* Replies to Comments on screen, written signed out and signed in.
NextRoute ==
  \/ Render
  \/ now < RouteIds /\ Tick
  \/ SignIn
  \/ Rendered /\ Fresh /\ CanDrop(MaxThreads) /\ Free(MaxInFlight) /\ addThread("/r", NoVersion)
  \/ \E c \in calls : addThreadCreateIssueDone(c)
  \/ \E id \in ShownThreadIds : \E t \in UserTexts :
       \E parent \in ShownCommentIds(id) \cup {NoId} :
         Rendered /\ Fresh /\ Room(id, RouteComments) /\ Free(MaxInFlight)
         /\ addReply(id, t, parent)
  \/ \E c \in calls : addReplyCreateCommentDone(c)
  \/ \E b \in backfills : backfillIssueDone(b)
  \/ \E b \in backfills : backfillCommentDone(b)

SpecRoute == InitOffline /\ [][NextRoute]_vars

\* Replies whose parent reference is any id at all: a Comment on screen, the
\* id the reply itself is about to get, or an id no Comment has yet.
AnyParent(id) == ShownCommentIds(id) \cup {NoId, CommentId(now), CommentId(now + 1)}

NextCycle ==
  \/ Render
  \/ now < CycleIds /\ Tick
  \/ SignIn
  \/ Rendered /\ Fresh /\ CanDrop(MaxThreads) /\ Free(CycleInFlight) /\ addThread("/r", NoVersion)
  \/ \E c \in calls : addThreadCreateIssueDone(c)
  \/ \E id \in ShownThreadIds : \E t \in UserTexts : \E parent \in AnyParent(id) :
       Rendered /\ Fresh /\ Room(id, CycleComments) /\ Free(CycleInFlight)
       /\ addReply(id, t, parent)
  \/ \E c \in calls : addReplyCreateCommentDone(c)
  \/ \E b \in backfills : backfillIssueDone(b)
  \/ \E b \in backfills : backfillCommentDone(b)

SpecCycle == InitOffline /\ [][NextCycle]_vars

\* The same, with every adapter call of a backfill returning: the continuation
\* of a call that is in flight runs eventually.
SpecCycleFair ==
  /\ SpecCycle
  /\ WF_vars(\E b \in backfills : backfillIssueDone(b))
  /\ WF_vars(\E b \in backfills : backfillCommentDone(b))

\* Replies to Comments on screen against reconciliation passes.
NextOrder ==
  \/ Render
  \/ now < OrderIds /\ Tick
  \/ Rendered /\ Fresh /\ CanDrop(MaxThreads) /\ Free(OrderInFlight) /\ addThread("/r", NoVersion)
  \/ \E c \in calls : addThreadCreateIssueDone(c)
  \/ \E id \in ShownThreadIds : \E t \in UserTexts :
       \E parent \in ShownCommentIds(id) \cup {NoId} :
         Rendered /\ Fresh /\ Room(id, OrderComments) /\ Free(OrderInFlight)
         /\ addReply(id, t, parent)
  \/ \E c \in calls : addReplyCreateCommentDone(c)
  \/ \E b \in backfills : backfillIssueDone(b)
  \/ \E b \in backfills : backfillCommentDone(b)
  \/ Rendered /\ Free(OrderInFlight) /\ syncFromGitHub("/r", NoVersion)
  \/ \E s \in syncs : syncListDone(s)
  \/ \E s \in syncs : syncCommentsDone(s)

SpecOrder == InitCreate /\ [][NextOrder]_vars

\* Reconciliation passes and retry passes running side by side, for pins
\* without Comments (the retry has issues to create and no Comment to push).
NextCount ==
  \/ Render
  \/ now < CountIds /\ Tick
  \/ Fresh /\ CanDrop(MaxThreads) /\ Free(CountInFlight) /\ addThread("/r", NoVersion)
  \/ \E c \in calls : addThreadCreateIssueDone(c)
  \/ Free(CountInFlight) /\ syncFromGitHub("/r", NoVersion)
  \/ \E s \in syncs : syncListDone(s)
  \/ \E s \in syncs : syncCommentsDone(s)
  \/ Free(CountInFlight) /\ retrySync
  \/ \E r \in retries : retryIssueDone(r)

SpecCount == InitCreate /\ [][NextCount]_vars

\* ------------------------------------------------------ CommentPanel: the tree
\* new Map(comments.map((c) => [c.id, c])): a later entry replaces an earlier one
byId(comments, id) ==
  LET S == {k \in DOMAIN comments : comments[k].id = id}
  IN IF S = {} THEN NoComment ELSE comments[CHOOSE k \in S : \A m \in S : m <= k]

\* byGitHubId (lines 293-296)
byGitHubId(comments, g) ==
  LET S == {k \in DOMAIN comments : comments[k].githubCommentId = g}
  IN IF g = 0 \/ S = {} THEN NoId ELSE comments[CHOOSE k \in S : \A m \in S : m <= k].id

\* parentLocal (lines 302-304)
parentLocal(comments, c) ==
  IF c.parentCommentId # NoId THEN c.parentCommentId
  ELSE IF c.parentGitHubCommentId # 0 THEN byGitHubId(comments, c.parentGitHubCommentId)
  ELSE NoId

\* the test of line 306
HasParent(comments, c) ==
  parentLocal(comments, c) # NoId /\ byId(comments, parentLocal(comments, c)).id # NoId

IdsOf(cs) == [k \in DOMAIN cs |-> cs[k].id]

\* list.sort(sortByCreatedAt) (lines 315-328): a stable sort on the createdAt
\* of the Comment that byId gives for each id
RECURSIVE sortByCreatedAt(_, _)
sortByCreatedAt(comments, ids) ==
  IF Len(ids) = 0 THEN <<>>
  ELSE LET rest == sortByCreatedAt(comments, SubSeq(ids, 1, Len(ids) - 1))
           x == ids[Len(ids)]
           n == Cardinality({k \in DOMAIN rest :
                               byId(comments, rest[k]).createdAt <= byId(comments, x).createdAt})
       IN SubSeq(rest, 1, n) \o <<x>> \o SubSeq(rest, n + 1, Len(rest))

\* topLevel (lines 300-313, 324)
topLevel(comments) ==
  sortByCreatedAt(comments,
    IdsOf(FilterSeqBy(comments, {k \in DOMAIN comments : ~HasParent(comments, comments[k])})))

\* childrenByParent.get(id) || [] (lines 299-313, 325-328, 337)
childrenByParent(comments, id) ==
  sortByCreatedAt(comments,
    IdsOf(FilterSeqBy(comments, {k \in DOMAIN comments :
                                   /\ HasParent(comments, comments[k])
                                   /\ parentLocal(comments, comments[k]) = id})))

\* renderNode (lines 330-443) and the list of line 446, as the ids of the
\* nodes in the order they are drawn; no branch of a tree drawn from topLevel
\* is deeper than the number of Comments unless it runs into a loop, where the
\* unfolding stops.
RECURSIVE renderNode(_, _, _)
RECURSIVE RenderList(_, _, _)
renderNode(comments, id, depth) ==
  <<id>> \o (IF depth >= Len(comments) THEN <<>>
             ELSE RenderList(comments, childrenByParent(comments, id), depth + 1))

RenderList(comments, ids, depth) ==
  IF Len(ids) = 0 THEN <<>>
  ELSE renderNode(comments, ids[1], depth) \o RenderList(comments, Tail(ids), depth)

Drawn(comments) == RenderList(comments, topLevel(comments), 0)

\* ------------------------------------------------------------------ claims
AllThreadIds == {ThreadId(n) : n \in 1..(MaxClock + 1)}

\* the createIssue calls in flight for one Thread, whoever issued them
CreateIssueInFlight(id) ==
    Cardinality({c \in calls : c.op = "createIssue" /\ c.threadId = id})
  + Cardinality({b \in backfills : b.pc = "issue" /\ b.threadId = id})
  + Cardinality({r \in retries : r.phase = "issues" /\ r.current[r.i].id = id})

IssuesCreatedFor(id) == {n \in DOMAIN remoteIssues : remoteIssues[n].origin = id}

\* C1: for every Thread, at most one createIssue call is in flight at any time
\* and at most one remote issue is ever created for it.
C1_OneCreationPerThread ==
  \A id \in AllThreadIds :
    /\ CreateIssueInFlight(id) <= 1
    /\ Cardinality(IssuesCreatedFor(id)) <= 1


\* a reconciliation pass completes its merge in this step
MergeDoneBy(s) ==
  /\ s \in syncs
  /\ \A x \in syncs' : x.pid # s.pid
  /\ ~(s.pc = "list" /\ ~s.ok)

ThreadIssues(ths) == {ths[i].issueNumber : i \in DOMAIN ths} \ {0}

\* C2: once an issue id is tombstoned, no Thread with that remoteIssueId is
\* in the collection after any reconciliation pass completes.
C2_NoTombstonedAfterPass ==
  [][\A s \in syncs :
       MergeDoneBy(s) => ThreadIssues(threads') \cap hiddenIssueNumbers' = {}]_vars

\* C3: when the createIssue of a Thread whose pin was removed meanwhile
\* succeeds, the new issue id is tombstoned, a closeIssue is issued for it and
\* the Thread stays out of the collection; a pass that filters its issue list
\* after that never materializes a Thread for the issue.
C3_DeferredTombstone ==
  [][/\ \A c \in calls :
          (c.op = "createIssue" /\ c.ok /\ c \notin calls' /\ c.threadId \in removedPins)
          => /\ c.val \in hiddenIssueNumbers'
             /\ c.val \in closeRequested'
             /\ FindThread(threads', c.threadId).id = NoId
     /\ hiddenIssueNumbers \subseteq hiddenIssueNumbers'
     /\ \A s \in syncs :
          MergeDoneBy(s) => ThreadIssues(threads') \cap (closeRequested \cap s.hid) = {}]_vars

\* a pass that filtered after a deferred tombstone is fetching comments
C3_Witness ==
  \E s \in syncs : s.pc = "comments" /\ s.hid \cap closeRequested # {}


\* C4: at most one Thread in the collection references a given
\* remoteIssueId, whatever passes and local operations have run.
C4_NoDuplicateIssue ==
  \A i, j \in DOMAIN threads :
    (i # j /\ threads[i].issueNumber # 0) => threads[i].issueNumber # threads[j].issueNumber

\* the Thread created as id is in the collection, under its own id or as the
\* Thread of an issue created for it
Represented(id) ==
  \E i \in DOMAIN threads :
    \/ threads[i].id = id
    \/ threads[i].issueNumber # 0 /\ remoteIssues[threads[i].issueNumber].origin = id

RemovedByPin(id) ==
  \/ id \in removedPins
  \/ \E n \in DOMAIN remoteIssues : remoteIssues[n].origin = id /\ GhThreadId(n) \in removedPins

\* C5: every locally created Thread that removePin has not removed is still
\* represented in the collection.
C5_OnlyRemovePinRemoves ==
  \A id \in pinsDropped : RemovedByPin(id) \/ Represented(id)


\* comment id sits in thread t with no remote-confirmed comment after it
KeptAtEnd(t, id) ==
  \E k \in DOMAIN t.comments :
    /\ t.comments[k].id = id
    /\ \A m \in DOMAIN t.comments : m > k => t.comments[m].githubCommentId = 0

\* C6: a merge keeps every unpushed Comment of every in-scope Thread, placed
\* after the remote-confirmed Comments of its Thread.
C6_MergeKeepsUnpushed ==
  [][\A s \in syncs :
       MergeDoneBy(s) =>
         \A i \in DOMAIN threads :
           InScope(threads[i], s.route, s.version) =>
             \A k \in DOMAIN threads[i].comments :
               threads[i].comments[k].githubCommentId = 0 =>
                 \E j \in DOMAIN threads' :
                    KeptAtEnd(threads'[j], threads[i].comments[k].id)]_vars


\* the pass completing in this step follows a pass of the same scope that saw
\* the same remote data, with no handler run in between
SecondPass(s) ==
  /\ MergeDoneBy(s)
  /\ lastMerge.key = SyncKey(s.route, s.version)
  /\ lastMerge'.candidates = lastMerge.candidates

\* C7: the second of two successive passes for one scope, against an
\* unchanged remote state and with no local mutation in between, leaves the
\* collection as the first pass left it.
C7_SecondPassIdentical ==
  [][\A s \in syncs : SecondPass(s) => threads' = threads]_vars


\* the parent of comment c in the snapshot backfill b drains, if c is a reply
\* to a comment the snapshot holds unpushed
UnsyncedParent(b, c) ==
  LET parent == FindComment(b.comments, c.parentCommentId)
  IN IF c.parentCommentId # NoId /\ parent.id # NoId /\ parent.githubCommentId = 0
     THEN parent ELSE NoComment

\* the backfill b has obtained a remote id for the comment
Obtained(b, c) ==
  /\ MapHas(b.created, c.id)
  /\ \E k \in DOMAIN remoteIssues[b.ensured].comments :
       remoteIssues[b.ensured].comments[k].id = MapGet(b.created, c.id)

\* C8: while a backfill has a createComment in flight for a reply whose
\* parent it found unpushed, it has already obtained the parent's remoteId;
\* so along a chain A->B->C, B is pushed after A and C after B.
C8_ParentBeforeChild ==
  \A b \in backfills :
    (b.pc = "comment" /\ UnsyncedParent(b, b.cur).id # NoId)
      => Obtained(b, UnsyncedParent(b, b.cur))

\* a backfill is pushing C of a chain A->B->C it found entirely unpushed
C8_Witness ==
  \E b \in backfills :
    /\ b.pc = "comment"
    /\ UnsyncedParent(b, b.cur).id # NoId
    /\ UnsyncedParent(b, UnsyncedParent(b, b.cur)).id # NoId


\* the remote comment the tracker holds under id n
RemoteComment(n) ==
  LET S == {<<i, k>> \in (DOMAIN remoteIssues) \X (1..MaxRemoteComments) :
              k <= Len(remoteIssues[i].comments) /\ remoteIssues[i].comments[k].id = n}
      p == CHOOSE x \in S : TRUE
  IN IF S = {} THEN [id |-> 0, body |-> RawBody(<<>>), createdAt |-> 0]
     ELSE remoteIssues[p[1]].comments[p[2]]

\* the remoteId comment id of thread threadId has now, 0 if none
RemoteIdNow(threadId, id) == FindComment(FindThread(threads, threadId).comments, id).githubCommentId

\* C9: while the retry pass has the createComment in flight for a reply C2 to
\* a top-level C1 it found unpushed, C1 already has its remoteId and the body
\* pushed for C2 carries that remoteId as its parent marker.
C9_RetryParentFirst ==
  \A r \in retries :
    r.phase = "comments" =>
      LET t == r.current[r.i]
          c2 == r.localOnly[r.j]
          c1 == FindComment(t.comments, c2.parentCommentId)
      IN (c2.parentCommentId # NoId /\ c1.id # NoId /\ c1.parentCommentId = NoId
          /\ c1.githubCommentId = 0)
         => /\ RemoteIdNow(t.id, c1.id) # 0
            /\ r.ok => RemoteComment(r.val).body.marker = RemoteIdNow(t.id, c1.id)


\* the Threads of collection ths that stand for the Thread once known as id
ThreadsOf(ths, id) ==
  {i \in DOMAIN ths :
     \/ ths[i].id = id
     \/ ths[i].issueNumber # 0 /\ remoteIssues[ths[i].issueNumber].origin = id}

\* C10: when the failure handler of a remote deleteComment has run, the
\* Thread holds the deleted Comment again and its syncStatus is error with
\* syncError set.
C10_DeleteFailureRestores ==
  [][\A c \in calls :
       (c.op = "deleteComment" /\ ~c.ok /\ c \notin calls') =>
         \A i \in ThreadsOf(threads', c.threadId) :
           /\ \E k \in DOMAIN threads'[i].comments :
                threads'[i].comments[k].githubCommentId = c.num
           /\ threads'[i].syncStatus = "error"
           /\ threads'[i].syncError # ""]_vars


\* no remote call that concerns the Thread is outstanding
Quiet(id) ==
  /\ \A c \in calls : c.threadId # id
  /\ \A b \in backfills : b.threadId # id
  /\ retries = {}
  /\ syncs = {}

AllPushed(t) ==
  /\ t.issueNumber # 0
  /\ \A k \in DOMAIN t.comments : t.comments[k].githubCommentId # 0

\* C11: whenever no remote call for a Thread is in flight, a Thread that has an
\* issue number and whose Comments all carry a remote id has syncStatus synced.
C11_DurableIsSynced ==
  \A i \in DOMAIN threads :
    (Quiet(threads[i].id) /\ AllPushed(threads[i])) => threads[i].syncStatus = "synced"


SameMergeScope(s1, s2) == s1.route = s2.route /\ V1(s1.version) = V1(s2.version)

\* C12: at most one reconciliation pass is in flight per scope, two scopes being
\* the same when the merge's scope predicate does not tell them apart; a call
\* for a scope whose pass is in flight starts no pass of its own.
C12_OnePassPerScope ==
  \A s1 \in syncs : \A s2 \in syncs : SameMergeScope(s1, s2) => s1 = s2


FailedEdit(c) ==
  /\ c \in calls
  /\ c.op \in {"closeIssue", "reopenIssue", "updateComment"}
  /\ ~c.ok
  /\ c \notin calls'

\* the two collections differ at most in the sync fields of the Thread id
OnlySyncFieldsOf(id, before, after) ==
  /\ Len(after) = Len(before)
  /\ \A i \in DOMAIN before :
       IF before[i].id = id
       THEN /\ after[i] = [before[i] EXCEPT !.syncStatus = after[i].syncStatus,
                                            !.syncError = after[i].syncError]
            /\ after[i].syncStatus \in {"error", "pending"}
            /\ after[i].syncError # ""
       ELSE after[i] = before[i]

\* C13: the failure handler of a closeIssue, reopenIssue or updateComment call
\* changes only the syncStatus and syncError of the Thread the call was made
\* for; its open/closed status, its Comments' texts and every other Thread stay.
C13_FailureFrame ==
  [][\A c \in calls : FailedEdit(c) => OnlySyncFieldsOf(c.threadId, threads, threads')]_vars

\* a failed close next to a failed edit of the other Thread's Comment
C13_Witness ==
  \E i \in DOMAIN threads : \E j \in DOMAIN threads :
    /\ i # j
    /\ threads[i].status = "closed"
    /\ threads[i].syncStatus = "error"
    /\ threads[i].syncError = "Failed to close issue"
    /\ threads[j].syncStatus = "pending"
    /\ threads[j].syncError = "Failed to update comment"
    /\ \E k \in DOMAIN threads[j].comments : threads[j].comments[k].text \in EditedTexts


OtherScope(ths, route, version) == {i \in DOMAIN ths : ~InScope(ths[i], route, version)}

\* C14: the merge of a reconciliation pass for (route, version) keeps every
\* Thread of another scope in the collection with all its fields unchanged.
C14_OtherScopesUntouched ==
  [][\A s \in syncs : MergeDoneBy(s) =>
        LET kept == FilterSeqBy(threads, OtherScope(threads, s.route, s.version))
        IN /\ Len(threads') >= Len(kept)
           /\ SubSeq(threads', 1, Len(kept)) = kept]_vars

\* a pass for version 2 has just merged next to a linked Thread without version
C14_Witness ==
  /\ lastMerge.key = SyncKey("/r", "2")
  /\ Len(lastMerge.candidates) > 0
  /\ \E i \in DOMAIN threads : threads[i].version = NoVersion /\ threads[i].issueNumber # 0


\* the step runs no continuation: every invocation in flight stays as it is
StartsOnly ==
  /\ calls \subseteq calls'
  /\ backfills \subseteq backfills'
  /\ retries \subseteq retries'
  /\ syncs \subseteq syncs'

NoAdapterCall ==
  /\ calls' = calls
  /\ backfills' = backfills
  /\ retries' = retries
  /\ syncs' = syncs
  /\ remoteVars' = remoteVars

\* the Comment a step appends to a Thread has no remote id and the Thread
\* keeps its syncStatus
AppendsLocalOnly ==
  \A i \in DOMAIN threads :
    (/\ i \in DOMAIN threads'
     /\ threads'[i].id = threads[i].id
     /\ Len(threads'[i].comments) = Len(threads[i].comments) + 1)
    => /\ threads'[i].comments[Len(threads'[i].comments)].githubCommentId = 0
       /\ threads'[i].syncStatus = threads[i].syncStatus

\* C15: while the adapter is not configured, an operation invoked on the
\* provider issues no adapter call; addReply on a Thread that has an issue
\* number appends the Comment without a remote id and keeps the syncStatus.
C15_OfflineNoCalls ==
  [][(~configured /\ StartsOnly) => (NoAdapterCall /\ AppendsLocalOnly)]_vars

\* signed out, a Comment without remote id sits on a Thread linked to an issue
C15_Witness ==
  /\ ~configured
  /\ InFlight = 0
  /\ \E i \in DOMAIN threads :
       /\ threads[i].issueNumber # 0
       /\ threads[i].syncStatus = "synced"
       /\ \E k \in DOMAIN threads[i].comments : threads[i].comments[k].githubCommentId = 0


\* the step is addThread creating the Thread id
Creates(id) == id \in pinsDropped' \ pinsDropped

\* the step is the completion handler of addThread's createIssue call c
CreateIssueHandled(c) == c \in calls /\ c.op = "createIssue" /\ c \notin calls'

\* C16: addThread appends a Thread that is syncing when the adapter is
\* configured and local otherwise; the handler of its createIssue gives the
\* Thread, if it is still in the collection, the issue number and syncStatus
\* synced on success, and syncStatus error, a syncError and no issue number on
\* failure.
C16_CreateThreadOutcome ==
  [][/\ \A id \in AllThreadIds : Creates(id) =>
          /\ Len(threads') = Len(threads) + 1
          /\ SubSeq(threads', 1, Len(threads)) = threads
          /\ threads'[Len(threads')].id = id
          /\ threads'[Len(threads')].issueNumber = 0
          /\ threads'[Len(threads')].syncStatus = IF configured THEN "syncing" ELSE "local"
     /\ \A c \in calls : CreateIssueHandled(c) =>
          \A i \in DOMAIN threads' : threads'[i].id = c.threadId =>
             IF c.ok
             THEN /\ threads'[i].issueNumber = c.val
                  /\ c.val \in DOMAIN remoteIssues
                  /\ remoteIssues[c.val].origin = c.threadId
                  /\ threads'[i].syncStatus = "synced"
             ELSE /\ threads'[i].issueNumber = 0
                  /\ threads'[i].syncStatus = "error"
                  /\ threads'[i].syncError # ""]_vars

\* a Thread created signed out is local while nothing is in flight
C16_Witness ==
  /\ InFlight = 0
  /\ ~configured
  /\ \E i \in DOMAIN threads :
       /\ threads[i].syncStatus = "local"
       /\ threads[i].issueNumber = 0
       /\ threads[i].id \in pinsDropped


\* the retry pass r ends in this step
RetryDoneBy(r) == r \in retries /\ \A x \in retries' : x.pid # r.pid

\* Thread t has its issue and every Comment of its earlier self t0 is pushed
Durable(t, t0) ==
  /\ t.issueNumber # 0
  /\ \A k \in DOMAIN t0.comments :
       FindComment(t.comments, t0.comments[k].id).githubCommentId # 0

\* C17: when a retry pass whose adapter calls all succeeded completes, every
\* Thread that was in the collection when the pass started and still is has an
\* issue number, and every Comment it had at the start has a remote id.
C17_RetryPushesAll ==
  [][\A r \in retries : (RetryDoneBy(r) /\ r.failed = {}) =>
        \A k \in DOMAIN r.start :
           LET t == FindThread(threads', r.start[k].id)
           IN t.id # NoId => Durable(t, r.start[k])]_vars


\* C18: when a retry pass ends, a Thread for which a createIssue or a
\* createComment of the pass failed has syncStatus pending or error and a
\* syncError; it is synced only if every push made for it succeeded.
C18_RetryFailureShown ==
  [][\A r \in retries : RetryDoneBy(r) =>
        \A id \in r.failed :
           LET t == FindThread(threads', id)
           IN t.id # NoId => (t.syncStatus \in {"pending", "error"} /\ t.syncError # "")]_vars


AllCommentIds == {CommentId(n) : n \in 1..(MaxClock + 1)}

\* the createComment calls in flight for one local Comment, whoever issued them
PushesInFlight(id) ==
    Cardinality({c \in calls : c.op = "createComment" /\ c.commentId = id})
  + Cardinality({b \in backfills : b.pc = "comment" /\ b.cur.id = id})
  + Cardinality({r \in retries : r.phase = "comments" /\ r.localOnly[r.j].id = id})

\* the Comment already carries a remote id in the collection
Pushed(id) ==
  \E i \in DOMAIN threads : \E k \in DOMAIN threads[i].comments :
    threads[i].comments[k].id = id /\ threads[i].comments[k].githubCommentId # 0

\* C19: a local Comment is created on the remote at most once: at no time are
\* two createComment calls in flight for it, and none is in flight for a
\* Comment that already has its remote id, whether the direct push of
\* addReply, the backfill or a retry pass issued the call.
C19_OnePushPerComment ==
  \A id \in AllCommentIds :
    /\ PushesInFlight(id) <= 1
    /\ PushesInFlight(id) = 1 => ~Pushed(id)


\* C20: a Thread keeps its id from its creation to its removal: the Thread
\* that carries an issue number after a step has the id of the Thread that
\* carried that issue number before it, a reconciliation merge included.
C20_ThreadIdStable ==
  [][\A i \in DOMAIN threads : \A j \in DOMAIN threads' :
        (threads[i].issueNumber # 0 /\ threads'[j].issueNumber = threads[i].issueNumber)
        => threads'[j].id = threads[i].id]_vars


\* C21: all Comments of one Thread have pairwise distinct ids, whatever
\* addReply calls (several within one clock tick included) and
\* reconciliation passes have run.
C21_CommentIdsDistinct ==
  \A i \in DOMAIN threads :
    \A k \in DOMAIN threads[i].comments : \A l \in DOMAIN threads[i].comments :
      threads[i].comments[k].id = threads[i].comments[l].id => k = l


\* the tracker's comment list behind the k-th Comment of a fetched Thread
RawList(t) == remoteIssues[t.issueNumber].comments

Snippet(body) == LeadingQuoted(stripHaleReplyMarkers(body))

\* the earlier comments of the list whose text holds the block that the k-th
\* comment quotes first
QuotedEarlier(cs, k) ==
  {j \in 1..(k - 1) : Contains(stripHaleReplyMarkers(cs[j].body), Snippet(cs[k].body))}

FetchedThreads == {i \in DOMAIN threads : threads[i].issueNumber # 0}

MarkerKept(c, raw) ==
  /\ raw.body.marker > 0 => c.parentGitHubCommentId = raw.body.marker
  /\ c.text = stripHaleReplyMarkers(raw.body)

DerivedParent(n, g) ==
  LET mapped == MapRemoteComments(remoteIssues[n].comments)
      S == {k \in DOMAIN mapped : mapped[k].githubCommentId = g}
  IN IF S = {} THEN 0 ELSE mapped[FirstIdx(mapped, S)].parentGitHubCommentId

\* C23: for a reply that has a remote id and whose parent has a remote id, a
\* reconciliation derives the parent's remote id from the tracker's comment
\* list, whichever of addReply, updateComment and the retry pass wrote the
\* reply's remote body.
C23_ParentRederivable ==
  \A i \in DOMAIN threads :
    \A k \in DOMAIN threads[i].comments :
      LET t == threads[i]
          c == t.comments[k]
          parent == FindComment(t.comments, c.parentCommentId)
      IN (/\ t.issueNumber \in DOMAIN remoteIssues
          /\ c.githubCommentId # 0
          /\ c.parentCommentId # NoId
          /\ parent.githubCommentId # 0)
         => DerivedParent(t.issueNumber, c.githubCommentId) = parent.githubCommentId


\* the step is the continuation of a successful createIssue that the backfill
\* or the retry pass issued for a Thread which removePin has removed
LateIssueFor(x, threadId) ==
  /\ x.ok
  /\ threadId \in removedPins
  /\ x.val \in DOMAIN remoteIssues

\* C24: when a createIssue issued by the backfill or by the retry pass
\* succeeds for a Thread that removePin removed meanwhile, the new issue number
\* joins the tombstone set and a closeIssue is issued for it.
C24_LateIssueTombstoned ==
  [][/\ \A b \in backfills :
          (b.pc = "issue" /\ b \notin backfills' /\ LateIssueFor(b, b.threadId))
          => (b.val \in hiddenIssueNumbers' /\ b.val \in closeRequested')
     /\ \A r \in retries :
          (r.phase = "issues" /\ r \notin retries' /\ LateIssueFor(r, r.current[r.i].id))
          => (r.val \in hiddenIssueNumbers' /\ r.val \in closeRequested')]_vars


\* C25: a merge leaves every in-scope Thread that has no issue number, or that
\* is syncing when the merge runs, in the collection with all its fields
\* unchanged, whatever the pass fetched.
C25_MergeKeepsUnlinked ==
  [][\A s \in syncs : MergeDoneBy(s) =>
        \A i \in DOMAIN threads :
           (/\ InScope(threads[i], s.route, s.version)
            /\ (threads[i].issueNumber = 0 \/ threads[i].syncStatus = "syncing"))
           => \E j \in DOMAIN threads' : threads'[j] = threads[i]]_vars


\* the reconciliation pass s starts in this step
PassStartedBy(s) == s \in syncs' /\ \A x \in syncs : x.pid # s.pid

\* C26: a reconciliation call made while a Thread of its scope is syncing
\* starts no pass: no fetch is issued and the collection stays as it is.
C26_NoPassWhileSyncing ==
  [][\A s \in syncs' : PassStartedBy(s) =>
        ~\E i \in DOMAIN threads :
            InScope(threads[i], s.route, s.version) /\ threads[i].syncStatus = "syncing"]_vars


\* the step is an addReply that appends a Comment to the i-th Thread
Replies(i) ==
  /\ i \in DOMAIN threads'
  /\ threads'[i].id = threads[i].id
  /\ Len(threads'[i].comments) = Len(threads[i].comments) + 1
  /\ threads'[i].comments[Len(threads'[i].comments)].id = CommentId(now)

\* the step issues one direct createComment for Comment id on issue n, and the
\* body it sends carries marker mk
DirectPush(id, n, mk) ==
  /\ backfills' = backfills
  /\ Cardinality(calls' \ calls) = 1
  /\ \A c \in calls' \ calls :
       /\ c.op = "createComment"
       /\ c.commentId = id
       /\ c.num = n
       /\ c.ok => remoteIssues'[n].comments[Len(remoteIssues'[n].comments)].body.marker = mk

BackfillDoneBy(b) == b \in backfills /\ \A x \in backfills' : x.pid # b.pid

\* the drain of b stops in this step although Comments are still queued: none
\* of them is eligible
StuckEnd(b) ==
  /\ BackfillDoneBy(b)
  /\ b.ok
  /\ IF b.pc = "comment" THEN Len(b.queue) > 0
     ELSE Len(Pending(FindThread(threadsRef, b.threadId).comments)) > 0

\* C28: when the drain loop stops because no queued Comment is eligible, the
\* backfill keeps the remote ids it obtained and leaves the Thread pending.
C28_StuckDrainLeavesPending ==
  [][\A b \in backfills : StuckEnd(b) =>
        LET t == FindThread(threads', b.threadId)
        IN t.id # NoId =>
             /\ t.syncStatus = "pending"
             /\ \A pr \in b.created :
                  FindComment(t.comments, pr[1]).githubCommentId = pr[2]]_vars


Running(p) == \E b \in backfills : b.pid = p

\* what a drain in flight has done so far: the Comment being pushed was pending
\* at the start, is no longer queued and was not pushed before by this drain;
\* nothing queued was pushed before; every pass through the loop took one
\* Comment out of the queue
DrainOnce(b) ==
  LET started == Pending(b.comments)
  IN /\ \E k \in DOMAIN started : started[k] = b.cur
     /\ \A k \in DOMAIN b.queue : b.queue[k] # b.cur /\ ~MapHas(b.created, b.queue[k].id)
     /\ ~MapHas(b.created, b.cur.id)
     /\ Len(b.queue) + b.guard = Len(started)
     /\ Cardinality(b.created) = b.guard - 1

\* C29: every backfill terminates once its adapter calls return, whatever the
\* parent references of the pending Comments (dangling, self-referencing and
\* cyclic ones included), and issues at most one createComment for each
\* Comment that was pending when its drain started.
C29_BackfillTerminates ==
  /\ [](\A b \in backfills : b.pc = "comment" => DrainOnce(b))
  /\ \A p \in 1..MaxInFlight : Running(p) ~> ~Running(p)

\* a drain is pushing a Comment while a queued one can never become eligible
C29_Witness ==
  \E b \in backfills :
    /\ b.pc = "comment"
    /\ \E k \in DOMAIN b.queue :
         /\ ~canSync(b.queue[k], b)
         /\ b.queue[k].parentCommentId = b.queue[k].id


\* C30: the parent that the quote fallback gives a fetched comment without a
\* marker is a comment of the same issue created before it, the earliest of
\* the earlier comments whose text holds the quoted block; it is never the
\* comment itself or a later one.
C30_QuoteParentEarliest ==
  \A i \in FetchedThreads :
    \A k \in DOMAIN threads[i].comments :
      LET c == threads[i].comments[k]
          cs == RawList(threads[i])
          E == QuotedEarlier(cs, k)
      IN (cs[k].body.marker <= 0 /\ c.parentGitHubCommentId # 0)
         => /\ E # {}
            /\ c.parentGitHubCommentId = cs[FirstIdx(cs, E)].id


\* C31: the Comments a backfill drains include the Comment that the addReply
\* running it has just appended, when the Thread had no issue and when it had
\* one and the reply's parent had no remote id.
C31_DrainIncludesAdded ==
  \A b \in backfills :
    b.pc = "comment" => \E k \in DOMAIN b.comments :
                          b.comments[k].id = b.added /\ b.comments[k].githubCommentId = 0


\* the remote ids of the Comments in a list
RemoteIds(cs) == {cs[k].githubCommentId : k \in DOMAIN cs} \ {0}

\* the candidate that pass s built earlier for issue n from a fetch that
\* succeeded, if it built one
FetchedEarlier(s, n) ==
  {k \in DOMAIN s.ghThreads : s.ghThreads[k].issueNumber = n /\ n \notin s.failed}

\* C32: a Comment whose push was recorded locally after a pass had fetched the
\* comments of its issue (the fetched list does not hold its remote id) is
\* still in its Thread after the merge of that pass.
C32_MergeKeepsLatePush ==
  [][\A s \in syncs : MergeDoneBy(s) =>
        \A i \in DOMAIN threads :
          \A k \in FetchedEarlier(s, threads[i].issueNumber) :
            \A g \in RemoteIds(threads[i].comments) \ RemoteIds(s.ghThreads[k].comments) :
               \E j \in DOMAIN threads' :
                  /\ threads'[j].issueNumber = threads[i].issueNumber
                  /\ g \in RemoteIds(threads'[j].comments)]_vars


\* C33: no two Comments of one Thread carry the same remote id, however
\* deleteComment (its restore after a remote failure included), the pushes
\* and the merges interleave.
C33_RemoteIdsDistinct ==
  \A i \in DOMAIN threads :
    \A k, m \in DOMAIN threads[i].comments :
      (k # m /\ threads[i].comments[k].githubCommentId # 0)
      => threads[i].comments[k].githubCommentId # threads[i].comments[m].githubCommentId


\* C34: while the user is signed in and no remote call for a Thread is in
\* flight, a Thread with syncStatus synced has an issue number and each of its
\* Comments has a remote id.
C34_SyncedIsDurable ==
  \A i \in DOMAIN threads :
    (configured /\ Quiet(threads[i].id) /\ threads[i].syncStatus = "synced")
    => AllPushed(threads[i])


TimesDrawn(comments, id) ==
  Cardinality({p \in DOMAIN Drawn(comments) : Drawn(comments)[p] = id})

\* C35: the tree drawn for a Thread holds each Comment of the Thread exactly
\* once (no Comment is its own parent or part of a loop of parents), and a
\* Comment whose parent is not among the Thread's Comments is at top level.
C35_TreeHoldsEachOnce ==
  \A i \in DOMAIN threads :
    LET cs == threads[i].comments
    IN /\ Len(Drawn(cs)) = Len(cs)
       /\ \A k \in DOMAIN cs :
            /\ TimesDrawn(cs, cs[k].id) = 1
            /\ byId(cs, parentLocal(cs, cs[k])).id = NoId
               => \E p \in DOMAIN topLevel(cs) : topLevel(cs)[p] = cs[k].id


\* the pass s ends in this step
PassEndedBy(s) == s \in syncs /\ \A x \in syncs' : x.pid # s.pid

\* a fetch of the pass s has failed
FetchFailedIn(s) ==
  \/ s.pc = "list" /\ ~s.ok
  \/ s.pc = "comments" /\ ~s.ok
  \/ s.failed # {}

\* Thread t2 stands for Thread t and holds each Comment of t
HoldsAll(t2, t) ==
  /\ t2.id = t.id \/ (t.issueNumber # 0 /\ t2.issueNumber = t.issueNumber)
  /\ \A k \in DOMAIN t.comments :
       \E m \in DOMAIN t2.comments :
          \/ t2.comments[m].id = t.comments[k].id
          \/ /\ t.comments[k].githubCommentId # 0
             /\ t2.comments[m].githubCommentId = t.comments[k].githubCommentId

\* C36: a pass in which the fetch of the issue list or the fetch of an issue's
\* comments has failed takes no Thread and no Comment out of the collection.
C36_FailedFetchRemovesNothing ==
  [][\A s \in syncs : (PassEndedBy(s) /\ FetchFailedIn(s)) =>
        \A i \in DOMAIN threads : \E j \in DOMAIN threads' : HoldsAll(threads'[j], threads[i])]_vars


LockKeys == {SyncKey("/r", v) : v \in LockVersions}

\* C37: a pass that ends, by its merge or after a failed fetch, takes its key
\* out of the in-flight map; a key is in the map only while a pass for it is
\* in flight, so a later call for the scope starts a pass, and no key stays
\* in the map forever.
C37_KeyReleased ==
  /\ [](syncInFlightByKey = {SyncKey(s.route, s.version) : s \in syncs})
  /\ [][\A s \in syncs :
          PassEndedBy(s) => SyncKey(s.route, s.version) \notin syncInFlightByKey']_vars
  /\ \A key \in LockKeys : (key \in syncInFlightByKey) ~> (key \notin syncInFlightByKey)

\* a pass is in flight for the scope whose last pass has merged
C37_Witness ==
  \E s \in syncs :
    /\ lastMerge.key = SyncKey(s.route, s.version)
    /\ SyncKey(s.route, s.version) \in syncInFlightByKey


\* the place of an id in a drawn list, 0 when it is not drawn
Place(drawn, id) ==
  LET S == {p \in DOMAIN drawn : drawn[p] = id}
  IN IF S = {} THEN 0 ELSE CHOOSE p \in S : \A q \in S : p <= q

\* Comment c2 is Comment c after a merge: the same id or the same remote id
SameComment(c2, c) ==
  c2.id = c.id \/ (c.githubCommentId # 0 /\ c2.githubCommentId = c.githubCommentId)

NonDecreasing(comments, ids) ==
  \A p, q \in DOMAIN ids :
    p < q => byId(comments, ids[p]).createdAt <= byId(comments, ids[q]).createdAt

\* the Comments of t that t2 keeps are drawn in t2 in the order they are drawn in t
SameDisplayOrder(t, t2) ==
  \A k1, k2 \in DOMAIN t.comments : \A m1, m2 \in DOMAIN t2.comments :
    (/\ SameComment(t2.comments[m1], t.comments[k1])
     /\ SameComment(t2.comments[m2], t.comments[k2])
     /\ Place(Drawn(t.comments), t.comments[k1].id) > 0
     /\ Place(Drawn(t.comments), t.comments[k1].id) < Place(Drawn(t.comments), t.comments[k2].id))
    => /\ Place(Drawn(t2.comments), t2.comments[m1].id) > 0
       /\ Place(Drawn(t2.comments), t2.comments[m1].id)
            < Place(Drawn(t2.comments), t2.comments[m2].id)

\* C38: the root list and every child list of a Thread are in ascending order
\* of createdAt, wherever the Comments sit in the stored list, and a merge
\* leaves the Comments it keeps in the order in which they were drawn.
C38_DisplayOrder ==
  /\ [](\A i \in DOMAIN threads :
          LET cs == threads[i].comments
          IN /\ NonDecreasing(cs, topLevel(cs))
             /\ \A k \in DOMAIN cs : NonDecreasing(cs, childrenByParent(cs, cs[k].id)))
  /\ [][\A s \in syncs : MergeDoneBy(s) =>
          \A i \in DOMAIN threads : \A j \in DOMAIN threads' :
            (threads[i].issueNumber # 0 /\ threads'[j].issueNumber = threads[i].issueNumber)
            => SameDisplayOrder(threads[i], threads'[j])]_vars


\* C39: the pending-close set is always a subset of the tombstone set, and no
\* step takes an issue number out of the tombstone set.
C39_TombstonesOnlyGrow ==
  /\ [](pendingCloseIssueNumbers \subseteq hiddenIssueNumbers)
  /\ [][hiddenIssueNumbers \subseteq hiddenIssueNumbers']_vars

\* one removed pin's issue still awaits its close while another tombstoned
\* issue does not
C39_Witness ==
  /\ pendingCloseIssueNumbers # {}
  /\ hiddenIssueNumbers \ pendingCloseIssueNumbers # {}


isSyncing == syncInFlightCount > 0

\* C40: the in-flight counter is never negative and equals the number of
\* reconciliation and retry passes in flight, so isSyncing holds exactly while
\* a pass is in flight.
C40_CounterCountsPasses ==
  /\ syncInFlightCount >= 0
  /\ syncInFlightCount = Cardinality(syncs) + Cardinality(retries)
  /\ isSyncing <=> (syncs # {} \/ retries # {})

\* a reconciliation pass and a retry pass are in flight together
C40_Witness ==
  /\ syncs # {}
  /\ retries # {}
  /\ syncInFlightCount = 2

====
